---- MODULE Spec2Model ----
(***************************************************************************)
(* cc-status: the advisory lock manager (cc_status/utils/api_lock.py) and  *)
(* the TTL cache (cc_status/core/cache.py), as state machines over the     *)
(* lock directory and the cache directory.                                 *)
(*                                                                         *)
(* Every filesystem call of a lock method (exists, read, unlink, write) is *)
(* one step of the calling thread, so that threads and processes           *)
(* interleave between them exactly where the code lets them.               *)
(***************************************************************************)
EXTENDS Integers, Sequences, FiniteSets, TLC

\* ------------------------------------------------------------------ bounds

\* caller threads; threads 1 and 2 live in process 1, later ones in process 2
NThreads == 2
\* the lock clock advances in steps of TickStep seconds while below MaxTime
TickStep == 45
MaxTime == 90
\* method calls made on the lock manager in one run, over all threads
MaxCalls == 2
\* the cache clock advances by ShortStep or LongStep seconds, MaxTicks times
ShortStep == 2
LongStep == 300
MaxTicks == 3
\* method calls made on the cache manager in one run
MaxCacheCalls == 3
\* concurrent callers of safe_json_read / safe_json_write, and their calls
NCallers == 2
MaxJsonCalls == 2
\* while they run the clock advances by JsonStep seconds, MaxJsonTicks times
JsonStep == 3
MaxJsonTicks == 2
\* processes with a BackgroundTaskManager, and the manager calls of one run
NProcs == 2
MaxDaemonCalls == 4
\* iterations of the task loops, snapshots of the status loop, status queries
MaxRuns == 3
MaxBeats == 2
\* processes that call update_usage, their calls, and the clock between them
NUpdaters == 2
MaxUsageCalls == 2
UsageStep == 1000
MaxUsageTicks == 2

\* ------------------------------------------------------- program constants

\* APILock.default_timeout: the lock TTL and the default acquire timeout
default_timeout == 60
\* the acquire timeout BasePlatform.fetch_balance_data passes to lock()
balance_lock_timeout == 30
\* CacheManager.default_ttl
default_ttl == 300

\* LockKeys.BALANCE_UPDATE
Keys == {"balance_update"}

Threads == 1..NThreads
\* os.getpid() of the process a thread runs in
getpid(t) == IF t <= 2 THEN 1 ELSE 2
Pids == {getpid(t) : t \in Threads}

\* timeouts a caller passes to acquire_lock / lock
Timeouts == {balance_lock_timeout}

\* -------------------------------------------------------------- the state

VARIABLES
  now,             \* time.time() / datetime.now(), in seconds
  calls,           \* history: method calls begun so far
  lockFile,        \* lock_dir/<key>.lock: <<>> when absent, else <<record>>
  memory_locks,    \* per process: keys of APILock._memory_locks
  lock_registry,   \* per process: APILock._lock_registry, key -> <<>> or <<thread_id>>
  pc,              \* per thread: the statement it is at
  op,              \* per thread: the public method it is in
  key,             \* per thread: lock_key of that call
  timeout,         \* per thread: timeout of the acquire_lock in progress
  start_time,      \* per thread: start_time of the acquire_lock in progress
  exc,             \* per thread: what the block of the lock() in progress raised
  todo,            \* per thread: lock files cleanup_expired_locks still has to visit
  cleaned_count,   \* per thread: cleaned_count of cleanup_expired_locks
  retried,         \* per thread: an attempt of the acquire_lock in progress failed
  holds,           \* history: keys whose acquire_lock returned True, no release_lock returned since
  last,            \* the step just taken: who took it, what it returned, what it removed
  cacheFile,       \* cache_dir/cache_<key>.json: <<>> when absent, else <<record>>
  cacheCalls,      \* history: cache method calls made so far
  ticks,           \* history: advances of the cache clock so far
  cacheLast,       \* the cache call just made: its arguments, what it read and returned
  written,         \* per key, the value and time of the set whose file is still there
  jPc,             \* per caller: the statement of safe_json_read / safe_json_write it is at
  jOp,             \* per caller: "read" or "write"
  jDoc,            \* per caller: the data safe_json_write was given
  jStart,          \* per caller: start_time of FileLock.__enter__
  jRes,            \* per caller: the value about to be returned
  jFd,             \* per caller: the inode of its open temp file, 0 when none
  flFile,          \* <file>.lock: <<>> when absent, else <<st_mtime>>
  dirent,          \* directory: name -> inode, 0 when the name does not exist
  inode,           \* inode -> the blocks stored in it
  jCalls,          \* history: safe_json_read / safe_json_write calls begun so far
  jLast,           \* the return just made by safe_json_read / safe_json_write
  jInPlace,        \* history: callers whose unfinished call changed the cache file by a write
  pid_file,        \* ~/.claude/background/daemon.pid: <<>> when absent, else <<text>>
  alive,           \* per process: it exists
  os_bound,        \* per process: it runs background_manager.py as __main__
  running,         \* per process: BackgroundTaskManager.running
  threads,         \* per process: loops launched by start() and not stopped
  dPc,             \* per process: the statement of start() it is at
  dCalls,          \* history: manager calls begun so far
  dLast,           \* the manager call that just returned
  tPc,             \* per loop of the manager: the statement it is at
  last_status,     \* BackgroundTaskManager.last_status: task -> <<>> or <<status>>
  runs,            \* history: per task, iterations of its loop completed
  status_data,     \* the snapshot _update_status has built, <<>> when none
  status_file,     \* ~/.claude/background/status.json: <<>> when absent, else <<text>>
  beats,           \* history: snapshots the status loop has begun
  tLast,           \* the loop step or get_status call just made
  uLock,           \* ~/.claude/cache/update_usage.lock: <<>> when absent, else <<text>>
  uPc,             \* per updater: the statement of update_usage it is at
  uForce,          \* per updater: the force argument of its call
  uRes,            \* per updater: the value its call is about to return
  uGone,           \* history, per updater: its call has unlinked the cache entry
  uFetched,        \* history, per updater: what the fetch of its call came to
  lastFetch,       \* history: time of the last fetch of a non-forced call, -1 when none
  uCalls,          \* history: update_usage calls begun so far
  uTicks,          \* history: advances of the clock so far
  uLast            \* the step of update_usage just taken

\* the process-wide dictionaries of an APILock
memVars == <<memory_locks, lock_registry>>
\* the locals of a cleanup_expired_locks in progress
clVars == <<todo, cleaned_count>>
varsLock == <<calls, lockFile, memVars, pc, op, key, timeout, start_time, exc,
              clVars, retried, holds, last>>
varsCache == <<cacheFile, cacheCalls, ticks, cacheLast, written>>
varsJson == <<jPc, jOp, jDoc, jStart, jRes, jFd, flFile, dirent, inode, jCalls, jLast,
              jInPlace>>
varsDaemon == <<pid_file, alive, os_bound, running, threads, dPc, dCalls, dLast>>
varsTasks == <<tPc, last_status, runs, status_data, status_file, beats, tLast>>
varsUsage == <<uLock, uPc, uForce, uRes, uGone, uFetched, lastFetch, uCalls, uTicks,
               uLast>>
vars == <<now, varsLock, varsCache, varsJson, varsDaemon, varsTasks, varsUsage>>

\* ---------------------------------------------------------- lock records

NoFile == <<>>
Exists(f) == f # NoFile

\* lock_info written by _try_acquire_file_lock (hostname is the one local host)
LockInfo(k, t, at) ==
  [lock_key |-> k, pid |-> getpid(t), thread_id |-> t, created_at |-> at]

\* a record left by a process outside the model (a crashed or foreign holder)
ForeignInfo(k, at) ==
  [lock_key |-> k, pid |-> 0, thread_id |-> 0, created_at |-> at]

\* the module-level name `json`: api_lock.py imports json only inside
\* _try_acquire_file_lock (a function-local binding), so json.load in
\* _is_lock_owner, _is_lock_expired and get_active_locks raises NameError
json_is_bound == FALSE

\* age of a record against the lock TTL (line 238)
Aged(f, at) == at - f[1].created_at > default_timeout
Live(f, at) == Exists(f) /\ ~Aged(f, at)
Stale(f, at) == Exists(f) /\ Aged(f, at)

\* lines 218-219: the record carries the caller's pid and thread id
OwnedBy(f, t) == f[1].pid = getpid(t) /\ f[1].thread_id = t

\* an expiry test that keeps every existing record
never_expired(f, at) == ~Exists(f)

\* APILock._is_lock_expired, reading content f at time `at`
_is_lock_expired(f, at) ==
  IF ~Exists(f) THEN TRUE
  ELSE IF ~json_is_bound THEN TRUE     \* NameError -> except Exception -> True
  ELSE Aged(f, at)

\* an ownership test that lets every caller through
everyone_owns(f, t) == TRUE

\* APILock._is_lock_owner, reading content f as thread t
_is_lock_owner(f, t) ==
  IF ~Exists(f) THEN TRUE
  ELSE IF ~json_is_bound THEN FALSE    \* NameError -> except Exception -> False
  ELSE OwnedBy(f, t)

\* ------------------------------------------------------ calls and returns

PyBool(b) == IF b THEN "True" ELSE "False"

\* the key a thread that is in no method is shown with
NoKey == CHOOSE k \in Keys : TRUE

\* `last` for the step thread t is taking: ret is what the method returns
\* ("-" while it goes on), exc what lock() raises, cleaned the count
\* cleanup_expired_locks returns, removed the lock file content the step
\* unlinked or overwrote, held whether t held the key when it took the step
Step(t, v, e, n, d) ==
  [t |-> t, op |-> op[t], key |-> key[t], ret |-> v, exc |-> e, cleaned |-> n,
   retried |-> retried[t], removed |-> d, held |-> key[t] \in holds[t]]

\* `last` after a step that neither returned nor removed (a call, a test, a tick)
NoStep ==
  [t |-> 0, op |-> "none", key |-> NoKey, ret |-> "-", exc |-> "none",
   cleaned |-> 0, retried |-> FALSE, removed |-> NoFile, held |-> FALSE]

\* a thread that is in no method calls method m with lock_key k
Calls(t, m, k, first) ==
  /\ pc[t] = "idle"
  /\ calls < MaxCalls
  /\ calls' = calls + 1
  /\ pc' = [pc EXCEPT ![t] = first]
  /\ op' = [op EXCEPT ![t] = m]
  /\ key' = [key EXCEPT ![t] = k]
  /\ last' = NoStep

\* the method thread t is in returns v (cleanup_expired_locks: cleaned_count n)
\* or raises e out of lock(), having removed d; the locals of the call are gone
Returns(t, v, e, n, d) ==
  /\ last' = Step(t, v, e, n, d)
  /\ pc' = [pc EXCEPT ![t] = "idle"]
  /\ op' = [op EXCEPT ![t] = "none"]
  /\ key' = [key EXCEPT ![t] = NoKey]
  /\ timeout' = [timeout EXCEPT ![t] = 0]
  /\ start_time' = [start_time EXCEPT ![t] = 0]
  /\ exc' = [exc EXCEPT ![t] = "none"]
  /\ todo' = [todo EXCEPT ![t] = {}]
  /\ cleaned_count' = [cleaned_count EXCEPT ![t] = 0]
  /\ retried' = [retried EXCEPT ![t] = FALSE]

\* release_lock returns v; called from lock()'s finally clause, lock() then
\* ends, re-raising what the block raised
ReleaseReturns(t, v, d) ==
  /\ Returns(t, PyBool(v), exc[t], 0, d)
  /\ holds' = [holds EXCEPT ![t] = @ \ {key[t]}]

\* acquire_lock returns v; inside lock() a True enters the block and a False
\* raises TimeoutError without running it (lines 159-165)
AcquireReturns(t, v, d) ==
  /\ holds' = [holds EXCEPT ![t] = IF v THEN @ \cup {key[t]} ELSE @]
  /\ IF op[t] = "lock" /\ v
       THEN /\ last' = Step(t, "True", "none", 0, d)
            /\ pc' = [pc EXCEPT ![t] = "body"]
            /\ UNCHANGED <<op, key, timeout, start_time, exc, clVars, retried>>
       ELSE Returns(t, PyBool(v), IF op[t] = "lock" THEN "TimeoutError" ELSE "none",
                    0, d)

\* ------------------------------------------------------------ acquire_lock

\* lines 87-98: start_time = time.time(); the first test of the while loop
\* passes for every timeout > 0
AcquireBegin(t, m, k, to) ==
  /\ Calls(t, m, k, "aq_exists")
  /\ timeout' = [timeout EXCEPT ![t] = to]
  /\ start_time' = [start_time EXCEPT ![t] = now]
  /\ retried' = [retried EXCEPT ![t] = FALSE]
  /\ UNCHANGED <<now, lockFile, memVars, exc, clVars, holds, varsCache,
                 varsJson, varsDaemon, varsTasks, varsUsage>>

acquire_lock(t, k, to) == AcquireBegin(t, "acquire_lock", k, to)

\* APILock.lock: the context manager calls acquire_lock(lock_key, timeout)
lock(t, k, to) == AcquireBegin(t, "lock", k, to)

\* _try_acquire_file_lock, line 171: lock_file.exists()
aq_exists(t) ==
  /\ pc[t] = "aq_exists"
  /\ pc' = [pc EXCEPT ![t] =
              IF Exists(lockFile[key[t]]) THEN "aq_expired" ELSE "aq_write"]
  /\ last' = NoStep
  /\ UNCHANGED <<now, calls, lockFile, memVars, op, key, timeout, start_time,
                 exc, clVars, retried, holds, varsCache, varsJson,
                 varsDaemon, varsTasks, varsUsage>>

\* line 173: _is_lock_expired(lock_file). When it is False the attempt returns
\* False (176), acquire_lock sleeps wait_interval (106) and tests the loop
\* condition again (98): another attempt, or give up and return False (113)
aq_expired(t) ==
  /\ pc[t] = "aq_expired"
  /\ IF _is_lock_expired(lockFile[key[t]], now)
       THEN /\ pc' = [pc EXCEPT ![t] = "aq_unlink"]
            /\ last' = NoStep
            /\ UNCHANGED <<op, key, timeout, start_time, exc, clVars, retried,
                           holds>>
       ELSE IF now - start_time[t] < timeout[t]
              THEN /\ pc' = [pc EXCEPT ![t] = "aq_exists"]
                   /\ retried' = [retried EXCEPT ![t] = TRUE]
                   /\ last' = NoStep
                   /\ UNCHANGED <<op, key, timeout, start_time, exc, clVars,
                                  holds>>
              ELSE AcquireReturns(t, FALSE, NoFile)
  /\ UNCHANGED <<now, calls, lockFile, memVars, varsCache, varsJson,
                 varsDaemon, varsTasks, varsUsage>>

\* line 174: lock_file.unlink(missing_ok=True)
aq_unlink(t) ==
  /\ pc[t] = "aq_unlink"
  /\ lockFile' = [lockFile EXCEPT ![key[t]] = NoFile]
  /\ pc' = [pc EXCEPT ![t] = "aq_write"]
  /\ last' = Step(t, "-", "none", 0, lockFile[key[t]])
  /\ UNCHANGED <<now, calls, memVars, op, key, timeout, start_time, exc,
                 clVars, retried, holds, varsCache, varsJson, varsDaemon,
                 varsTasks, varsUsage>>

\* lines 179-203: open(lock_file, "w") and json.dump(lock_info), the memory
\* lock and the registry entry; the attempt and acquire_lock return True
aq_write(t) ==
  /\ pc[t] = "aq_write"
  /\ lockFile' = [lockFile EXCEPT ![key[t]] = <<LockInfo(key[t], t, now)>>]
  /\ memory_locks' = [memory_locks EXCEPT ![getpid(t)] = @ \cup {key[t]}]
  /\ lock_registry' = [lock_registry EXCEPT ![getpid(t)][key[t]] = <<t>>]
  /\ AcquireReturns(t, TRUE, lockFile[key[t]])
  /\ UNCHANGED <<now, calls, varsCache, varsJson, varsDaemon, varsTasks,
                 varsUsage>>

\* ------------------------------------------------------------ release_lock

release_lock(t, k) ==
  /\ Calls(t, "release_lock", k, "rl_check")
  /\ UNCHANGED <<now, lockFile, memVars, timeout, start_time, exc, clVars,
                 retried, holds, varsCache, varsJson, varsDaemon, varsTasks,
                 varsUsage>>

\* APILock.lock, lines 160-163: the block ends, normally or by an exception
\* raised inside it, and the finally clause calls release_lock(lock_key)
lock_body_exit(t, e) ==
  /\ pc[t] = "body"
  /\ pc' = [pc EXCEPT ![t] = "rl_check"]
  /\ exc' = [exc EXCEPT ![t] = e]
  /\ last' = NoStep
  /\ UNCHANGED <<now, calls, lockFile, memVars, op, key, timeout, start_time,
                 clVars, retried, holds, varsCache, varsJson, varsDaemon,
                 varsTasks, varsUsage>>

\* line 129: _is_lock_owner(lock_file, lock_key); not the owner: return False
rl_check(t) ==
  /\ pc[t] = "rl_check"
  /\ IF _is_lock_owner(lockFile[key[t]], t)
       THEN /\ pc' = [pc EXCEPT ![t] = "rl_unlink"]
            /\ last' = NoStep
            /\ UNCHANGED <<op, key, timeout, start_time, exc, clVars, retried,
                           holds>>
       ELSE ReleaseReturns(t, FALSE, NoFile)
  /\ UNCHANGED <<now, calls, lockFile, memVars, varsCache, varsJson,
                 varsDaemon, varsTasks, varsUsage>>

\* lines 130-141: unlink, drop the memory lock and the registry entry, True
rl_unlink(t) ==
  /\ pc[t] = "rl_unlink"
  /\ lockFile' = [lockFile EXCEPT ![key[t]] = NoFile]
  /\ memory_locks' = [memory_locks EXCEPT ![getpid(t)] = @ \ {key[t]}]
  /\ lock_registry' = [lock_registry EXCEPT ![getpid(t)][key[t]] = <<>>]
  /\ ReleaseReturns(t, TRUE, lockFile[key[t]])
  /\ UNCHANGED <<now, calls, varsCache, varsJson, varsDaemon, varsTasks,
                 varsUsage>>

\* --------------------------------------------------------------- is_locked

is_locked(t, k) ==
  /\ Calls(t, "is_locked", k, "il_exists")
  /\ UNCHANGED <<now, lockFile, memVars, timeout, start_time, exc, clVars,
                 retried, holds, varsCache, varsJson, varsDaemon, varsTasks,
                 varsUsage>>

\* line 304: not lock_file.exists(): return False
il_exists(t) ==
  /\ pc[t] = "il_exists"
  /\ IF Exists(lockFile[key[t]])
       THEN /\ pc' = [pc EXCEPT ![t] = "il_expired"]
            /\ last' = NoStep
            /\ UNCHANGED <<op, key, timeout, start_time, exc, clVars, retried>>
       ELSE Returns(t, "False", "none", 0, NoFile)
  /\ UNCHANGED <<now, calls, lockFile, memVars, holds, varsCache, varsJson,
                 varsDaemon, varsTasks, varsUsage>>

\* line 308: _is_lock_expired(lock_file); not expired: return True (312)
il_expired(t) ==
  /\ pc[t] = "il_expired"
  /\ IF _is_lock_expired(lockFile[key[t]], now)
       THEN /\ pc' = [pc EXCEPT ![t] = "il_unlink"]
            /\ last' = NoStep
            /\ UNCHANGED <<op, key, timeout, start_time, exc, clVars, retried>>
       ELSE Returns(t, "True", "none", 0, NoFile)
  /\ UNCHANGED <<now, calls, lockFile, memVars, holds, varsCache, varsJson,
                 varsDaemon, varsTasks, varsUsage>>

\* lines 309-310: lock_file.unlink(missing_ok=True); return False
il_unlink(t) ==
  /\ pc[t] = "il_unlink"
  /\ lockFile' = [lockFile EXCEPT ![key[t]] = NoFile]
  /\ Returns(t, "False", "none", 0, lockFile[key[t]])
  /\ UNCHANGED <<now, calls, memVars, holds, varsCache, varsJson, varsDaemon,
                 varsTasks, varsUsage>>

\* ------------------------------------------------------ force_release_lock

force_release_lock(t, k) ==
  /\ Calls(t, "force_release_lock", k, "fr_exists")
  /\ UNCHANGED <<now, lockFile, memVars, timeout, start_time, exc, clVars,
                 retried, holds, varsCache, varsJson, varsDaemon, varsTasks,
                 varsUsage>>

\* line 326: lock_file.exists(); no file: return False (331)
fr_exists(t) ==
  /\ pc[t] = "fr_exists"
  /\ IF Exists(lockFile[key[t]])
       THEN /\ pc' = [pc EXCEPT ![t] = "fr_unlink"]
            /\ last' = NoStep
            /\ UNCHANGED <<op, key, timeout, start_time, exc, clVars, retried>>
       ELSE Returns(t, "False", "none", 0, NoFile)
  /\ UNCHANGED <<now, calls, lockFile, memVars, holds, varsCache, varsJson,
                 varsDaemon, varsTasks, varsUsage>>

\* a forced release that spares records of other threads and processes
fr_unlink_own(t) ==
  /\ pc[t] = "fr_unlink"
  /\ IF Exists(lockFile[key[t]]) /\ ~OwnedBy(lockFile[key[t]], t)
       THEN /\ lockFile' = lockFile
            /\ Returns(t, "False", "none", 0, NoFile)
       ELSE /\ lockFile' = [lockFile EXCEPT ![key[t]] = NoFile]
            /\ Returns(t, "True", "none", 0, lockFile[key[t]])
  /\ UNCHANGED <<now, calls, memVars, holds, varsCache, varsJson, varsDaemon,
                 varsTasks, varsUsage>>

\* lines 327-329: lock_file.unlink(missing_ok=True); return True
fr_unlink(t) ==
  /\ pc[t] = "fr_unlink"
  /\ lockFile' = [lockFile EXCEPT ![key[t]] = NoFile]
  /\ Returns(t, "True", "none", 0, lockFile[key[t]])
  /\ UNCHANGED <<now, calls, memVars, holds, varsCache, varsJson, varsDaemon,
                 varsTasks, varsUsage>>

\* --------------------------------------------------- cleanup_expired_locks

\* lines 254-256: cleaned_count = 0; lock_dir.glob("*.lock") lists the files
\* (called by a thread, or by the process's APILock-Cleanup thread every 30s)
cleanup_expired_locks(t) ==
  /\ Calls(t, "cleanup_expired_locks", NoKey, "cl_next")
  /\ todo' = [todo EXCEPT ![t] = {k \in Keys : Exists(lockFile[k])}]
  /\ cleaned_count' = [cleaned_count EXCEPT ![t] = 0]
  /\ UNCHANGED <<now, lockFile, memVars, timeout, start_time, exc, retried,
                 holds, varsCache, varsJson, varsDaemon, varsTasks,
                 varsUsage>>

\* lines 256-257: the next listed file, _is_lock_expired(lock_file); after the
\* last one, return cleaned_count (267)
cl_next(t) ==
  /\ pc[t] = "cl_next"
  /\ IF todo[t] = {}
       THEN Returns(t, "count", "none", cleaned_count[t], NoFile)
       ELSE \E k \in todo[t] :
            /\ key' = [key EXCEPT ![t] = k]
            /\ todo' = [todo EXCEPT ![t] = @ \ {k}]
            /\ pc' = [pc EXCEPT ![t] =
                 IF _is_lock_expired(lockFile[k], now) THEN "cl_unlink" ELSE "cl_next"]
            /\ last' = NoStep
            /\ UNCHANGED <<op, timeout, start_time, exc, cleaned_count, retried>>
  /\ UNCHANGED <<now, calls, lockFile, memVars, holds, varsCache, varsJson,
                 varsDaemon, varsTasks, varsUsage>>

\* a sweep step that counts the file and leaves it in place
cl_count_only(t) ==
  /\ pc[t] = "cl_unlink"
  /\ cleaned_count' = [cleaned_count EXCEPT ![t] = @ + 1]
  /\ pc' = [pc EXCEPT ![t] = "cl_next"]
  /\ last' = NoStep
  /\ UNCHANGED <<now, calls, lockFile, memVars, op, key, timeout, start_time,
                 exc, todo, retried, holds, varsCache, varsJson, varsDaemon,
                 varsTasks, varsUsage>>

\* lines 258-259: lock_file.unlink(missing_ok=True); cleaned_count += 1
cl_unlink(t) ==
  /\ pc[t] = "cl_unlink"
  /\ lockFile' = [lockFile EXCEPT ![key[t]] = NoFile]
  /\ cleaned_count' = [cleaned_count EXCEPT ![t] = @ + 1]
  /\ pc' = [pc EXCEPT ![t] = "cl_next"]
  /\ last' = Step(t, "-", "none", 0, lockFile[key[t]])
  /\ UNCHANGED <<now, calls, memVars, op, key, timeout, start_time, exc,
                 todo, retried, holds, varsCache, varsJson, varsDaemon,
                 varsTasks, varsUsage>>

\* get_active_locks, lines 269-291, on the lock files `files`: the records
\* json.load returns, by lock key; a file whose load raises is skipped (287)
get_active_locks(files) ==
  [k \in {x \in Keys : Exists(files[x]) /\ json_is_bound} |-> files[k][1]]

\* -------------------------------------------------------------------- time

Tick ==
  /\ now < MaxTime
  /\ now' = now + TickStep
  /\ last' = NoStep
  /\ UNCHANGED <<calls, lockFile, memVars, pc, op, key, timeout, start_time,
                 exc, clVars, retried, holds, varsCache, varsJson,
                 varsDaemon, varsTasks, varsUsage>>

\* ------------------------------------------------------------ CacheManager

\* cache keys: update_usage.py caches under usage_daily_<date>,
\* background_manager.py under balance_<platform>
CacheKeys == {"usage_daily", "balance"}

\* a Python value a caller stores: `body` names its content, `keys` the type
\* of its dict keys. The callers store dicts with str keys
PyValue(body, keys) == [body |-> body, keys |-> keys]
Payloads == {PyValue(b, "str") : b \in {"v1", "v2"}}
None == PyValue("None", "str")

\* a serializer that writes nothing of the value
dump_nothing(v) == <<"{", "None", "}">>

\* json.dump of a value: the text of a JSON object, whose keys are strings
\* whatever the type of the dict keys was
json_dump(v) == <<"{", v.body, "}">>

\* json.load of such a text: a dict with str keys
json_load(text) == PyValue(text[2], "str")

\* the ttl argument of get and set: 0 stands for None, ShortTtl for a caller's own
ShortTtl == 1
TtlArgs == {0, ShortTtl}

\* `ttl or self.default_ttl` (lines 50 and 81): None and 0 are both falsy
ttl_or_default(ttl) == IF ttl # 0 THEN ttl ELSE default_ttl

\* the content of a cache file: the JSON text set writes (lines 78-82), or a
\* text json.load rejects (JSONDecodeError), or bytes that are not UTF-8
\* (UnicodeDecodeError)
CacheText(data, at, ttl) ==
  [text |-> "json", data |-> json_dump(data), cached_at |-> at, ttl |-> ttl]
Malformed ==
  [text |-> "malformed", data |-> json_dump(None), cached_at |-> 0, ttl |-> 0]
Undecodable ==
  [text |-> "undecodable", data |-> json_dump(None), cached_at |-> 0, ttl |-> 0]
Parses(f) == Exists(f) /\ f[1].text = "json"

\* line 52: time.time() - cached_at > cache_ttl
cache_expired(entry, cache_ttl, at) == at - entry[1].cached_at > cache_ttl

\* `cacheLast` after a step that was no cache call
NoCall ==
  [op |-> "none", key |-> "", ttl |-> 0, read |-> NoFile, ret |-> "None",
   data |-> None, removed |-> {}]

\* `written` once the files of the keys in `gone` are unlinked
Forget(gone) == [k \in CacheKeys |-> IF k \in gone THEN <<>> ELSE written[k]]

\* one call of the cache manager begins
CacheCall ==
  /\ cacheCalls < MaxCacheCalls
  /\ cacheCalls' = cacheCalls + 1

\* CacheManager.set(key, data, ttl): safe_json_write replaces the file and set
\* returns True; when safe_json_write fails (ok = FALSE: the FileLock times
\* out, the write or the rename raises IOError) the file stays and set
\* returns False
cache_set(k, data, ttl, ok) ==
  /\ CacheCall
  /\ cacheFile' = IF ok
       THEN [cacheFile EXCEPT ![k] = <<CacheText(data, now, ttl_or_default(ttl))>>]
       ELSE cacheFile
  /\ cacheLast' = [op |-> "set", key |-> k, ttl |-> ttl, read |-> NoFile,
                   ret |-> PyBool(ok), data |-> data, removed |-> {}]
  /\ written' = IF ok
       THEN [written EXCEPT ![k] = <<[data |-> data, at |-> now]>>]
       ELSE written
  /\ UNCHANGED <<now, ticks, varsLock, varsJson, varsDaemon, varsTasks, varsUsage>>

\* a get that answers as get does and leaves every file in place
get_keeps(k, ttl) ==
  /\ CacheCall
  /\ LET entry == cacheFile[k]
         hit == Parses(entry) /\ ~cache_expired(entry, ttl_or_default(ttl), now)
     IN  cacheLast' = [op |-> "get", key |-> k, ttl |-> ttl, read |-> entry,
                       ret |-> IF hit THEN "data" ELSE "None",
                       data |-> IF hit THEN json_load(entry[1].data) ELSE None,
                       removed |-> {}]
  /\ UNCHANGED <<cacheFile, written, now, ticks, varsLock, varsJson, varsDaemon, varsTasks, varsUsage>>

\* CacheManager.get(key, ttl): safe_json_read gives None for a missing file and
\* for a malformed one (get returns None, line 46); UnicodeDecodeError escapes
\* safe_json_read and get returns None (60-62); an entry older than
\* `ttl or default_ttl` is unlinked (None, lines 52-55); otherwise its data is
\* returned (58)
cache_get(k, ttl) ==
  /\ CacheCall
  /\ LET entry == cacheFile[k]
         gone == Parses(entry) /\ cache_expired(entry, ttl_or_default(ttl), now)
         hit == Parses(entry) /\ ~gone
     IN  /\ cacheFile' = IF gone THEN [cacheFile EXCEPT ![k] = NoFile] ELSE cacheFile
         /\ cacheLast' = [op |-> "get", key |-> k, ttl |-> ttl, read |-> entry,
                          ret |-> IF hit THEN "data" ELSE "None",
                          data |-> IF hit THEN json_load(entry[1].data) ELSE None,
                          removed |-> IF gone THEN {k} ELSE {}]
         /\ written' = Forget(IF gone THEN {k} ELSE {})
  /\ UNCHANGED <<now, ticks, varsLock, varsJson, varsDaemon, varsTasks, varsUsage>>

\* CacheManager.delete(key), lines 103-108: unlink the file if it exists; True
cache_delete(k) ==
  /\ CacheCall
  /\ cacheFile' = [cacheFile EXCEPT ![k] = NoFile]
  /\ cacheLast' = [op |-> "delete", key |-> k, ttl |-> 0, read |-> cacheFile[k],
                   ret |-> "True", data |-> None,
                   removed |-> IF Exists(cacheFile[k]) THEN {k} ELSE {}]
  /\ written' = Forget({k})
  /\ UNCHANGED <<now, ticks, varsLock, varsJson, varsDaemon, varsTasks, varsUsage>>

\* what cleanup_expired does with one file, lines 132-144: an entry older than
\* its stored ttl is unlinked; so is a file whose read raises past
\* safe_json_read (UnicodeDecodeError); a malformed one reads as None and stays
swept(f, at) ==
  /\ Exists(f)
  /\ \/ f[1].text = "undecodable"
     \/ f[1].text = "json" /\ cache_expired(f, f[1].ttl, at)

\* CacheManager.cleanup_expired(), lines 126-152: returns cleaned_count
cleanup_expired ==
  /\ CacheCall
  /\ LET gone == {k \in CacheKeys : swept(cacheFile[k], now)}
     IN  /\ cacheFile' = [k \in CacheKeys |-> IF k \in gone THEN NoFile ELSE cacheFile[k]]
         /\ cacheLast' = [op |-> "cleanup_expired", key |-> "", ttl |-> 0,
                          read |-> NoFile, ret |-> "count", data |-> None,
                          removed |-> gone]
         /\ written' = Forget(gone)
  /\ UNCHANGED <<now, ticks, varsLock, varsJson, varsDaemon, varsTasks, varsUsage>>

\* time passes between cache calls
CacheTick(d) ==
  /\ ticks < MaxTicks
  /\ ticks' = ticks + 1
  /\ now' = now + d
  /\ cacheLast' = NoCall
  /\ UNCHANGED <<cacheFile, cacheCalls, written, varsLock, varsJson, varsDaemon, varsTasks, varsUsage>>

\* ------------------------------------- safe_json_read / safe_json_write

\* concurrent callers of safe_json_read / safe_json_write on one cache file
Callers == 1..NCallers

\* FileLock.timeout (file_lock.py line 17)
file_lock_timeout == 5

\* documents a caller writes, and the number of blocks json.dump emits for each
Docs == {"a", "bb"}
DocLen(d) == IF d = "a" THEN 1 ELSE 2

\* the bytes of document d, as blocks
Encode(d) == [i \in 1..DocLen(d) |-> d]

\* json.load: the document the blocks c are the whole text of, "malformed"
\* (JSONDecodeError) for any other text, the empty one included
Decode(c) ==
  IF \E d \in Docs : c = Encode(d)
    THEN CHOOSE d \in Docs : c = Encode(d)
    ELSE "malformed"

\* writing the blocks s at offset 0 of a file that holds c
Overwrite(c, s) ==
  [i \in 1..(IF Len(s) > Len(c) THEN Len(s) ELSE Len(c)) |->
     IF i <= Len(s) THEN s[i] ELSE c[i]]

\* directory entries of the cache directory and the inodes behind them
Names == {"cache", "tmp"}
Inodes == 1..(NCallers + 2)

\* inodes some name or some open file still refers to
Referenced(dir, fds) == {dir[n] : n \in Names} \cup {fds[t] : t \in Callers}

\* the storage of unreferenced inodes is released
Release(ino, dir, fds) ==
  [i \in Inodes |-> IF i \in Referenced(dir, fds) THEN ino[i] ELSE <<>>]

\* the inode open(temp_file, "w") gets when the name does not exist yet
FreshInode(dir, fds) == CHOOSE i \in Inodes : i \notin Referenced(dir, fds)

\* `jLast` after a step that was not a return
NoReturn == [t |-> 0, op |-> "none", ret |-> "-", inplace |-> FALSE]

\* safe_json_read / safe_json_write returns v to caller t
JsonReturns(t, v) ==
  /\ jLast' = [t |-> t, op |-> jOp[t], ret |-> v, inplace |-> t \in jInPlace]
  /\ jInPlace' = jInPlace \ {t}
  /\ jPc' = [jPc EXCEPT ![t] = "idle"]
  /\ jOp' = [jOp EXCEPT ![t] = "none"]
  /\ jDoc' = [jDoc EXCEPT ![t] = ""]
  /\ jStart' = [jStart EXCEPT ![t] = 0]
  /\ jRes' = [jRes EXCEPT ![t] = "-"]

\* FileLock.__enter__, lines 25-26: start_time; the first loop test passes
fl_enter(t) ==
  /\ jStart' = [jStart EXCEPT ![t] = now]
  /\ jPc' = [jPc EXCEPT ![t] = "fl_exists"]

\* safe_json_write(file_path, data), lines 79-83
safe_json_write(t, d) ==
  /\ jPc[t] = "idle"
  /\ jCalls < MaxJsonCalls
  /\ jCalls' = jCalls + 1
  /\ jOp' = [jOp EXCEPT ![t] = "write"]
  /\ jDoc' = [jDoc EXCEPT ![t] = d]
  /\ fl_enter(t)
  /\ jLast' = NoReturn
  /\ UNCHANGED <<now, jRes, jFd, flFile, dirent, inode, jInPlace, varsLock,
                 varsCache, varsDaemon, varsTasks, varsUsage>>

\* safe_json_read(file_path), lines 65-69: no file: return default (None)
safe_json_read(t) ==
  /\ jPc[t] = "idle"
  /\ jCalls < MaxJsonCalls
  /\ jCalls' = jCalls + 1
  /\ IF dirent["cache"] = 0
       THEN /\ jLast' = [t |-> t, op |-> "read", ret |-> "None", inplace |-> FALSE]
            /\ UNCHANGED <<jPc, jOp, jDoc, jStart>>
       ELSE /\ jOp' = [jOp EXCEPT ![t] = "read"]
            /\ fl_enter(t)
            /\ jLast' = NoReturn
            /\ UNCHANGED jDoc
  /\ UNCHANGED <<now, jRes, jFd, flFile, dirent, inode, jInPlace, varsLock,
                 varsCache, varsDaemon, varsTasks, varsUsage>>

\* FileLock.__enter__, line 29: self.lock_file.exists()
fl_exists(t) ==
  /\ jPc[t] = "fl_exists"
  /\ jPc' = [jPc EXCEPT ![t] = IF flFile = NoFile THEN "fl_touch" ELSE "fl_stat"]
  /\ jLast' = NoReturn
  /\ UNCHANGED <<now, jOp, jDoc, jStart, jRes, jFd, flFile, dirent, inode,
                 jCalls, jInPlace, varsLock, varsCache, varsDaemon,
                 varsTasks, varsUsage>>

\* lines 31-32 and 40-41: self.lock_file.touch(); return self
fl_touch(t) ==
  /\ jPc[t] = "fl_touch"
  /\ flFile' = <<now>>
  /\ jStart' = [jStart EXCEPT ![t] = 0]
  /\ jPc' = [jPc EXCEPT ![t] = IF jOp[t] = "write" THEN "wr_open" ELSE "rd_load"]
  /\ jLast' = NoReturn
  /\ UNCHANGED <<now, jOp, jDoc, jRes, jFd, dirent, inode, jCalls, jInPlace,
                 varsLock, varsCache, varsDaemon, varsTasks, varsUsage>>

\* lines 36-52: the age of the lock file against the timeout. A stale file is
\* unlinked next; otherwise (or when stat raises OSError on a vanished file)
\* sleep and test the loop condition: again, or TimeoutError, which
\* safe_json_read turns into default and safe_json_write into False
fl_stat(t) ==
  /\ jPc[t] = "fl_stat"
  /\ IF flFile # NoFile /\ now - flFile[1] > file_lock_timeout
       THEN /\ jPc' = [jPc EXCEPT ![t] = "fl_unlink"]
            /\ jLast' = NoReturn
            /\ UNCHANGED <<jOp, jDoc, jStart, jRes, jInPlace>>
       ELSE IF now - jStart[t] < file_lock_timeout
              THEN /\ jPc' = [jPc EXCEPT ![t] = "fl_exists"]
                   /\ jLast' = NoReturn
                   /\ UNCHANGED <<jOp, jDoc, jStart, jRes, jInPlace>>
              ELSE JsonReturns(t, IF jOp[t] = "write" THEN "False" ELSE "None")
  /\ UNCHANGED <<now, jFd, flFile, dirent, inode, jCalls, varsLock,
                 varsCache, varsDaemon, varsTasks, varsUsage>>

\* line 39: self.lock_file.unlink(missing_ok=True)
fl_unlink(t) ==
  /\ jPc[t] = "fl_unlink"
  /\ flFile' = NoFile
  /\ jPc' = [jPc EXCEPT ![t] = "fl_touch"]
  /\ jLast' = NoReturn
  /\ UNCHANGED <<now, jOp, jDoc, jStart, jRes, jFd, dirent, inode, jCalls,
                 jInPlace, varsLock, varsCache, varsDaemon, varsTasks,
                 varsUsage>>

\* safe_json_write, line 86: open(temp_file, "w") creates the file or truncates
\* the one of that name; every writer of a cache file uses the same temp name
\* (line 85)
wr_open(t) ==
  /\ jPc[t] = "wr_open"
  /\ LET i == IF dirent["tmp"] = 0 THEN FreshInode(dirent, jFd) ELSE dirent["tmp"]
     IN  /\ dirent' = [dirent EXCEPT !["tmp"] = i]
         /\ inode' = [inode EXCEPT ![i] = <<>>]
         /\ jFd' = [jFd EXCEPT ![t] = i]
  /\ jPc' = [jPc EXCEPT ![t] = "wr_write"]
  /\ jLast' = NoReturn
  /\ UNCHANGED <<now, jOp, jDoc, jStart, jRes, flFile, jCalls, jInPlace,
                 varsLock, varsCache, varsDaemon, varsTasks, varsUsage>>

\* lines 86-87: json.dump(data, f) and the close flush n blocks of the text at
\* offset 0 of the open file; fewer than the whole text on an IOError, which
\* leaves the with block through FileLock.__exit__. The open file is the cache
\* file when another writer has renamed the shared temp file meanwhile
wr_write(t, n) ==
  /\ jPc[t] = "wr_write"
  /\ n <= DocLen(jDoc[t])
  /\ jDoc' = [jDoc EXCEPT ![t] = ""]
  /\ jFd' = [jFd EXCEPT ![t] = 0]
  /\ inode' = Release([inode EXCEPT ![jFd[t]] =
                         Overwrite(@, SubSeq(Encode(jDoc[t]), 1, n))],
                      dirent, jFd')
  /\ jInPlace' = IF jFd[t] = dirent["cache"] /\ inode'[jFd[t]] # inode[jFd[t]]
                   THEN jInPlace \cup {t}
                   ELSE jInPlace
  /\ IF n = DocLen(jDoc[t])
       THEN /\ jPc' = [jPc EXCEPT ![t] = "wr_replace"]
            /\ UNCHANGED jRes
       ELSE /\ jRes' = [jRes EXCEPT ![t] = "False"]
            /\ jPc' = [jPc EXCEPT ![t] = "fl_exit"]
  /\ jLast' = NoReturn
  /\ UNCHANGED <<now, jOp, jStart, flFile, dirent, jCalls, varsLock,
                 varsCache, varsDaemon, varsTasks, varsUsage>>

\* line 90: temp_file.replace(file_path); OSError when the temp name is gone
\* or the rename is refused
wr_replace(t, fails) ==
  /\ jPc[t] = "wr_replace"
  /\ IF fails \/ dirent["tmp"] = 0
       THEN /\ jRes' = [jRes EXCEPT ![t] = "False"]
            /\ UNCHANGED <<dirent, inode>>
       ELSE /\ dirent' = [dirent EXCEPT !["cache"] = dirent["tmp"], !["tmp"] = 0]
            /\ inode' = Release(inode, dirent', jFd)
            /\ jRes' = [jRes EXCEPT ![t] = "True"]
  /\ jPc' = [jPc EXCEPT ![t] = "fl_exit"]
  /\ jLast' = NoReturn
  /\ UNCHANGED <<now, jOp, jDoc, jStart, jFd, flFile, jCalls, jInPlace,
                 varsLock, varsCache, varsDaemon, varsTasks, varsUsage>>

\* lines 70-71: open(file_path, "r") and json.load(f) on the directory dir and
\* the inodes ino: the document, or the exception raised. The text is read as
\* UTF-8 and was written with ensure_ascii=False, so a text that is not a
\* whole document fails either in the decoder or in the parser
LoadOutcomes(dir, ino) ==
  IF dir["cache"] = 0 THEN {"FileNotFoundError"}
  ELSE IF Decode(ino[dir["cache"]]) # "malformed" THEN {Decode(ino[dir["cache"]])}
  ELSE IF ino[dir["cache"]] = <<>> THEN {"JSONDecodeError"}
  ELSE {"JSONDecodeError", "UnicodeDecodeError"}

\* safe_json_read, lines 72-74: JSONDecodeError, IOError and TimeoutError give
\* the default, None; anything else leaves safe_json_read as it is
read_except(r) ==
  IF r \in {"FileNotFoundError", "JSONDecodeError", "TimeoutError"} THEN "None" ELSE r

\* a handler that lets everything through
reraise(r) == r

\* CacheManager.get, cache.py lines 60-62: whatever exception leaves
\* safe_json_read is logged and get returns None
get_except(r) ==
  IF r \in {"FileNotFoundError", "JSONDecodeError", "TimeoutError", "UnicodeDecodeError"}
    THEN "None" ELSE r

\* CacheManager.get, cache.py lines 41-46 and 60-62, on the outcome r of the
\* open and load inside safe_json_read: the handler of safe_json_read, then
\* the handler of get
get_result(r) == get_except(read_except(r))

\* safe_json_read, lines 70-71: open(file_path) and json.load, or the exception
\* either raises
rd_load(t) ==
  /\ jPc[t] = "rd_load"
  /\ \E r \in LoadOutcomes(dirent, inode) : jRes' = [jRes EXCEPT ![t] = r]
  /\ jPc' = [jPc EXCEPT ![t] = "fl_exit"]
  /\ jLast' = NoReturn
  /\ UNCHANGED <<now, jOp, jDoc, jStart, jFd, flFile, dirent, inode, jCalls,
                 jInPlace, varsLock, varsCache, varsDaemon, varsTasks,
                 varsUsage>>

\* FileLock.__exit__, lines 56-60: unlink the lock file if it exists; then
\* safe_json_read / safe_json_write returns
fl_exit(t) ==
  /\ jPc[t] = "fl_exit"
  /\ flFile' = NoFile
  /\ JsonReturns(t, IF jOp[t] = "read" THEN get_result(jRes[t])
                                       ELSE jRes[t])
  /\ UNCHANGED <<now, jFd, dirent, inode, jCalls, varsLock, varsCache,
                 varsDaemon, varsTasks, varsUsage>>

\* CacheManager.delete, cache.py lines 105-107, called in another process (or
\* the unlink of an expired entry, line 54): the cache file is unlinked,
\* whoever is inside FileLock
unlink_cache_file ==
  /\ dirent["cache"] # 0
  /\ jCalls < MaxJsonCalls
  /\ jCalls' = jCalls + 1
  /\ dirent' = [dirent EXCEPT !["cache"] = 0]
  /\ inode' = Release(inode, dirent', jFd)
  /\ jLast' = NoReturn
  /\ UNCHANGED <<now, jPc, jOp, jDoc, jStart, jRes, jFd, flFile, jInPlace,
                 varsLock, varsCache, varsDaemon, varsTasks, varsUsage>>

\* the process of caller t is killed inside a call: its open file is closed,
\* the files it created stay
Kill(t) ==
  /\ jPc[t] \notin {"idle", "dead"}
  /\ jPc' = [jPc EXCEPT ![t] = "dead"]
  /\ jOp' = [jOp EXCEPT ![t] = "none"]
  /\ jDoc' = [jDoc EXCEPT ![t] = ""]
  /\ jStart' = [jStart EXCEPT ![t] = 0]
  /\ jRes' = [jRes EXCEPT ![t] = "-"]
  /\ jFd' = [jFd EXCEPT ![t] = 0]
  /\ jInPlace' = jInPlace \ {t}
  /\ inode' = Release(inode, dirent, jFd')
  /\ jLast' = NoReturn
  /\ UNCHANGED <<now, flFile, dirent, jCalls, varsLock, varsCache,
                 varsDaemon, varsTasks, varsUsage>>

\* line 46: time.sleep(0.1). The file operations take no time; the clock
\* advances while a caller that found the lock file waits in FileLock.__enter__
JsonTick ==
  /\ \E t \in Callers : jPc[t] = "fl_stat"
  /\ ticks < MaxJsonTicks
  /\ ticks' = ticks + 1
  /\ now' = now + JsonStep
  /\ jLast' = NoReturn
  /\ UNCHANGED <<jPc, jOp, jDoc, jStart, jRes, jFd, flFile, dirent, inode, jCalls,
               jInPlace>>
  /\ UNCHANGED <<cacheFile, cacheCalls, cacheLast, written, varsLock, varsDaemon, varsTasks, varsUsage>>

\* ------------------------------------------------- BackgroundTaskManager

\* processes that each own one BackgroundTaskManager; a process is its own pid
Procs == 1..NProcs

\* the loops start() launches: a thread per enabled task (lines 53-57, 75-85)
\* and the status updater (88-94)
Tasks == {"balance_update", "usage_update", "cache_cleanup"}
Loops == Tasks \cup {"StatusUpdater"}

\* the text of daemon.pid: str(os.getpid()) (line 70), nothing (a file opened
\* for writing and never written), or text that is no number
PidText(kind, pid) == [text |-> kind, pid |-> pid]
str(pid) == PidText("digits", pid)
EmptyText == PidText("empty", 0)
Garbage == PidText("garbage", 0)

\* int(f.read().strip()), line 129: 0 stands for ValueError
int(text) == IF text.text = "digits" THEN text.pid ELSE 0

\* os.kill(pid, 0) is None, line 140: ProcessLookupError for a pid of no process
kill0(pid, live) == pid \in Procs /\ live[pid]

\* is_running(), lines 122-142, in a process where the module global `os` is
\* bound (bound) or not: `os` and `subprocess` are imported only under
\* `if __name__ == "__main__"` (381-383), so in a process that imports
\* background_manager (statusline.py line 34) line 132 raises NameError and
\* `except Exception` returns False
IsRunning(f, bound, live) ==
  /\ Exists(f)
  /\ int(f[1]) # 0
  /\ bound
  /\ kill0(int(f[1]), live)

\* a PID file that names no live process
StaleHandle(f, live) == Exists(f) /\ ~kill0(int(f[1]), live)

\* `dLast` after a step that was no return
NoDaemonCall ==
  [p |-> 0, op |-> "none", ret |-> "-", flag |-> FALSE, ran |-> FALSE,
   before |-> NoFile]

\* a manager method of process p returns v
DaemonReturns(p, o, v) ==
  dLast' = [p |-> p, op |-> o, ret |-> v, flag |-> running[p],
            ran |-> IsRunning(pid_file, os_bound[p], alive), before |-> pid_file]

\* a call by process p begins
DaemonCall(p) ==
  /\ alive[p]
  /\ dPc[p] = "idle"
  /\ dCalls < MaxDaemonCalls
  /\ dCalls' = dCalls + 1

\* a start that marks the manager running although it is refused
start_marks(p) ==
  /\ DaemonCall(p)
  /\ IF IsRunning(pid_file, os_bound[p], alive)
       THEN /\ DaemonReturns(p, "start", "False")
            /\ running' = [running EXCEPT ![p] = TRUE]
            /\ UNCHANGED dPc
       ELSE /\ dPc' = [dPc EXCEPT ![p] = "st_write"]
            /\ dLast' = NoDaemonCall
            /\ UNCHANGED running
  /\ UNCHANGED <<pid_file, alive, os_bound, threads>>
  /\ UNCHANGED <<now, varsLock, varsCache, varsJson, varsTasks, varsUsage>>

\* start(), lines 61-63: refused when is_running()
start(p) ==
  /\ DaemonCall(p)
  /\ IF IsRunning(pid_file, os_bound[p], alive)
       THEN /\ DaemonReturns(p, "start", "False")
            /\ UNCHANGED dPc
       ELSE /\ dPc' = [dPc EXCEPT ![p] = "st_write"]
            /\ dLast' = NoDaemonCall
  /\ UNCHANGED <<pid_file, alive, os_bound, running, threads>>
  /\ UNCHANGED <<now, varsLock, varsCache, varsJson, varsTasks, varsUsage>>

\* start(), lines 68-99: open(pid_file, "w") truncates the file and
\* f.write(str(os.getpid())) fills it; where `os` is not bound the NameError is
\* logged and the file stays empty. Then running = True, the loops are
\* launched and appended to self.threads, and start returns True
st_write(p) ==
  /\ alive[p]
  /\ dPc[p] = "st_write"
  /\ pid_file' = <<IF os_bound[p] THEN str(p) ELSE EmptyText>>
  /\ running' = [running EXCEPT ![p] = TRUE]
  /\ threads' = [threads EXCEPT ![p] = @ + Cardinality(Loops)]
  /\ dPc' = [dPc EXCEPT ![p] = "idle"]
  /\ DaemonReturns(p, "start", "True")
  /\ UNCHANGED <<alive, os_bound, dCalls>>
  /\ UNCHANGED <<now, varsLock, varsCache, varsJson, varsTasks, varsUsage>>

\* stop(), lines 101-120: nothing when this manager's running flag is not set;
\* else clear it, wait up to 5 seconds for each loop, unlink the PID file
stop(p) ==
  /\ DaemonCall(p)
  /\ IF running[p]
       THEN /\ running' = [running EXCEPT ![p] = FALSE]
            /\ pid_file' = NoFile
       ELSE UNCHANGED <<running, pid_file>>
  /\ UNCHANGED threads
  /\ DaemonReturns(p, "stop", "None")
  /\ UNCHANGED <<alive, os_bound, dPc>>
  /\ UNCHANGED <<now, varsLock, varsCache, varsJson, varsTasks, varsUsage>>

\* is_running() called by process p
is_running(p) ==
  /\ DaemonCall(p)
  /\ DaemonReturns(p, "is_running", PyBool(IsRunning(pid_file, os_bound[p], alive)))
  /\ UNCHANGED <<pid_file, alive, os_bound, running, threads, dPc>>
  /\ UNCHANGED <<now, varsLock, varsCache, varsJson, varsTasks, varsUsage>>

\* main() with the command "stop", lines 323-330, in a process that runs
\* background_manager.py as a script: a new BackgroundTaskManager, whose running
\* flag is False (line 40), so that its stop() returns at line 104; exit code 0
\* when is_running() was true, else 1
main_stop(p) ==
  /\ DaemonCall(p)
  /\ os_bound[p]
  /\ ~running[p]
  /\ DaemonReturns(p, "main_stop",
                   IF IsRunning(pid_file, os_bound[p], alive) THEN "0" ELSE "1")
  /\ UNCHANGED <<pid_file, alive, os_bound, running, threads, dPc>>
  /\ UNCHANGED <<now, varsLock, varsCache, varsJson, varsTasks, varsUsage>>

\* run_forever(), lines 284-287: start(); refused: return False
run_forever(p) ==
  /\ DaemonCall(p)
  /\ IF IsRunning(pid_file, os_bound[p], alive)
       THEN /\ DaemonReturns(p, "run_forever", "False")
            /\ UNCHANGED dPc
       ELSE /\ dPc' = [dPc EXCEPT ![p] = "rf_start"]
            /\ dLast' = NoDaemonCall
  /\ UNCHANGED <<pid_file, alive, os_bound, running, threads>>
  /\ UNCHANGED <<now, varsLock, varsCache, varsJson, varsTasks, varsUsage>>

\* the rest of that start() (lines 68-99), then the loop of lines 291-292
rf_start(p) ==
  /\ alive[p]
  /\ dPc[p] = "rf_start"
  /\ pid_file' = <<IF os_bound[p] THEN str(p) ELSE EmptyText>>
  /\ running' = [running EXCEPT ![p] = TRUE]
  /\ threads' = [threads EXCEPT ![p] = @ + Cardinality(Loops)]
  /\ dPc' = [dPc EXCEPT ![p] = "rf_loop"]
  /\ dLast' = NoDaemonCall
  /\ UNCHANGED <<alive, os_bound, dCalls>>
  /\ UNCHANGED <<now, varsLock, varsCache, varsJson, varsTasks, varsUsage>>

\* a run_forever that leaves its loop and returns True without stop()
rf_exit_unstopped(p) ==
  /\ alive[p]
  /\ dPc[p] = "rf_loop"
  /\ dPc' = [dPc EXCEPT ![p] = "idle"]
  /\ DaemonReturns(p, "run_forever", "True")
  /\ UNCHANGED <<running, threads, pid_file, alive, os_bound, dCalls>>
  /\ UNCHANGED <<now, varsLock, varsCache, varsJson, varsTasks, varsUsage>>

\* lines 291-298: the loop ends (KeyboardInterrupt, or running found False);
\* finally: stop(); return True
rf_exit(p) ==
  /\ alive[p]
  /\ dPc[p] = "rf_loop"
  /\ IF running[p]
       THEN /\ running' = [running EXCEPT ![p] = FALSE]
            /\ pid_file' = NoFile
       ELSE UNCHANGED <<running, pid_file>>
  /\ UNCHANGED threads
  /\ dPc' = [dPc EXCEPT ![p] = "idle"]
  /\ DaemonReturns(p, "run_forever", "True")
  /\ UNCHANGED <<alive, os_bound, dCalls>>
  /\ UNCHANGED <<now, varsLock, varsCache, varsJson, varsTasks, varsUsage>>

\* lines 154, 176-177, 243-247: the loops of process p come out of
\* time.sleep while self.running is False, leave `while self.running` and
\* end. stop() waits 5 seconds for each (lines 111-114) and returns whether
\* or not they have ended; the sleeps last 60 to 3600 seconds
loops_exit(p) ==
  /\ alive[p]
  /\ ~running[p]
  /\ threads[p] > 0
  /\ threads' = [threads EXCEPT ![p] = 0]
  /\ dLast' = NoDaemonCall
  /\ UNCHANGED <<pid_file, alive, os_bound, running, dPc, dCalls>>
  /\ UNCHANGED <<now, varsLock, varsCache, varsJson, varsTasks, varsUsage>>

\* process p is killed: its manager and its daemon threads go, the PID file
\* stays
Crash(p) ==
  /\ alive[p]
  /\ alive' = [alive EXCEPT ![p] = FALSE]
  /\ running' = [running EXCEPT ![p] = FALSE]
  /\ threads' = [threads EXCEPT ![p] = 0]
  /\ dPc' = [dPc EXCEPT ![p] = "dead"]
  /\ dLast' = NoDaemonCall
  /\ UNCHANGED <<pid_file, os_bound, dCalls>>
  /\ UNCHANGED <<now, varsLock, varsCache, varsJson, varsTasks, varsUsage>>

\* ------------------------------------ task loops and the status snapshot

\* the process whose manager was started and runs the loops
Manager == 1

\* what one call of a task method (_update_balances, _update_usage,
\* _cleanup_cache) comes to: its work is done; its work fails and the method
\* logs that (lines 210-213, 219-224, 235-236: every task method catches
\* Exception, _update_usage also swallows the False of update_usage); or an
\* exception escapes the method
Outcomes == {"done", "failed", "raised"}

\* last_status[task_name] as _run_task assigns it: lines 163-167 after the
\* method returned, lines 171-176 after it raised
TaskStatus(outcome) ==
  [success |-> outcome # "raised",
   error |-> IF outcome = "raised" THEN "str(e)" ELSE ""]

\* a recorder that gives every task the status of the task that ran
record_all(ls, k, outcome) == [j \in Tasks |-> <<TaskStatus(outcome)>>]

\* self.last_status[task_name] = {...}
record_status(ls, k, outcome) == [ls EXCEPT ![k] = <<TaskStatus(outcome)>>]

\* json.dump of status_data (line 261) and json.load of the file (271): a
\* bool becomes true / false and back; the tasks without a status are no keys
json_bool(b) == IF b THEN "true" ELSE "false"
py_bool(x) == x = "true"
StatusText(data) ==
  [text |-> "json", manager_status |-> data.manager_status,
   tasks |-> [k \in Tasks |-> IF data.tasks[k] = <<>> THEN <<>>
                              ELSE <<[success |-> json_bool(data.tasks[k][1].success),
                                      error |-> data.tasks[k][1].error]>>]]
status_load(text) ==
  [manager_status |-> text.manager_status,
   tasks |-> [k \in Tasks |-> IF text.tasks[k] = <<>> THEN <<>>
                              ELSE <<[success |-> py_bool(text.tasks[k][1].success),
                                      error |-> text.tasks[k][1].error]>>]]
NoTasks == [k \in Tasks |-> <<>>]

\* the file open(self.status_file, "w") leaves before anything is written
EmptyStatus == [text |-> "empty", manager_status |-> "", tasks |-> NoTasks]

\* what get_status returns without a file (lines 273-276) and for a file
\* json.load rejects (278-282)
NotRunning == [manager_status |-> "not_running", tasks |-> NoTasks]
StatusError == [manager_status |-> "error", tasks |-> NoTasks]

\* `tLast` after a step that is no loop iteration and no get_status
NoLoopStep ==
  [op |-> "none", task |-> "", outcome |-> "", ret |-> [manager_status |-> "-", tasks |-> NoTasks]]

\* iterations the task loops have completed, all tasks together
RECURSIVE Sum(_, _)
Sum(f, S) == IF S = {} THEN 0 ELSE LET k == CHOOSE x \in S : TRUE
                                   IN  f[k] + Sum(f, S \ {k})

\* _run_task, lines 148 and 179: the sleep of the iteration before is over;
\* while self.running
run_test(k) ==
  /\ alive[Manager]
  /\ tPc[k] = "test"
  /\ tPc' = [tPc EXCEPT ![k] = IF running[Manager] THEN "body" ELSE "ended"]
  /\ tLast' = NoLoopStep
  /\ UNCHANGED <<last_status, runs, status_data, status_file, beats>>
  /\ UNCHANGED <<now, varsLock, varsCache, varsJson, varsDaemon, varsUsage>>

\* _run_task, lines 149-176: one call of the task method and the status
\* recorded for it
run_body(k, outcome) ==
  /\ alive[Manager]
  /\ tPc[k] = "body"
  /\ Sum(runs, Tasks) < MaxRuns
  /\ last_status' = record_status(last_status, k, outcome)
  /\ runs' = [runs EXCEPT ![k] = @ + 1]
  /\ tPc' = [tPc EXCEPT ![k] = "test"]
  /\ tLast' = [NoLoopStep EXCEPT !.op = "iteration", !.task = k, !.outcome = outcome]
  /\ UNCHANGED <<status_data, status_file, beats>>
  /\ UNCHANGED <<now, varsLock, varsCache, varsJson, varsDaemon, varsUsage>>

\* _update_status_loop, lines 243 and 246: the sleep is over; while
\* self.running
hb_test ==
  /\ alive[Manager]
  /\ tPc["StatusUpdater"] = "test"
  /\ beats < MaxBeats
  /\ beats' = beats + 1
  /\ tPc' = [tPc EXCEPT !["StatusUpdater"] =
               IF running[Manager] THEN "hb_build" ELSE "ended"]
  /\ tLast' = NoLoopStep
  /\ UNCHANGED <<last_status, runs, status_data, status_file>>
  /\ UNCHANGED <<now, varsLock, varsCache, varsJson, varsDaemon, varsUsage>>

\* the value of "manager_status", line 254
manager_status(flag) == IF flag THEN "running" ELSE "stopped"

\* _update_status, lines 252-258: build status_data from the running flag as
\* it is now; where `os` is not bound os.getpid() raises NameError, which is
\* logged (263-264), and nothing is written
hb_build ==
  /\ alive[Manager]
  /\ tPc["StatusUpdater"] = "hb_build"
  /\ IF os_bound[Manager]
       THEN /\ tPc' = [tPc EXCEPT !["StatusUpdater"] = "hb_open"]
            /\ status_data' = <<[manager_status |-> manager_status(running[Manager]),
                                 tasks |-> last_status]>>
       ELSE /\ tPc' = [tPc EXCEPT !["StatusUpdater"] = "test"]
            /\ UNCHANGED status_data
  /\ tLast' = NoLoopStep
  /\ UNCHANGED <<last_status, runs, status_file, beats>>
  /\ UNCHANGED <<now, varsLock, varsCache, varsJson, varsDaemon, varsUsage>>

\* line 260: open(self.status_file, "w") creates or truncates the file
hb_open ==
  /\ alive[Manager]
  /\ tPc["StatusUpdater"] = "hb_open"
  /\ status_file' = <<EmptyStatus>>
  /\ tPc' = [tPc EXCEPT !["StatusUpdater"] = "hb_dump"]
  /\ tLast' = NoLoopStep
  /\ UNCHANGED <<last_status, runs, status_data, beats>>
  /\ UNCHANGED <<now, varsLock, varsCache, varsJson, varsDaemon, varsUsage>>

\* lines 261: json.dump(status_data, f) and the close of the file
hb_dump ==
  /\ alive[Manager]
  /\ tPc["StatusUpdater"] = "hb_dump"
  /\ status_file' = <<StatusText(status_data[1])>>
  /\ status_data' = <<>>
  /\ tPc' = [tPc EXCEPT !["StatusUpdater"] = "test"]
  /\ tLast' = NoLoopStep
  /\ UNCHANGED <<last_status, runs, beats>>
  /\ UNCHANGED <<now, varsLock, varsCache, varsJson, varsDaemon, varsUsage>>

\* get_status(), lines 267-282, called in any process
get_status ==
  /\ tLast' = [NoLoopStep EXCEPT
       !.op = "get_status",
       !.ret = IF status_file = NoFile THEN NotRunning
               ELSE IF status_file[1].text = "json" THEN status_load(status_file[1])
               ELSE StatusError]
  /\ tLast.op # "get_status"
  /\ UNCHANGED <<tPc, last_status, runs, status_data, status_file, beats>>
  /\ UNCHANGED <<now, varsLock, varsCache, varsJson, varsDaemon, varsUsage>>

\* ---------------------------------------------------------- UsageUpdater

\* processes that call UsageUpdater.update_usage
Updaters == 1..NUpdaters

\* COOLDOWN_MINUTES (update_usage.py line 28), and the window in seconds
COOLDOWN_MINUTES == 30
Cooldown == COOLDOWN_MINUTES * 60

\* today_cache_key, line 85: one day, one key
UsageKey == "usage_daily"

\* the text of the lock file: datetime.now().isoformat() (line 65), or a text
\* datetime.fromisoformat rejects; `by` is history: the updater that wrote it
LockText(at, u) == [text |-> "iso", time |-> at, by |-> u]
fromisoformat(t) == IF t.text = "iso" THEN t.time ELSE -1

\* is_lock_valid(), lines 43-59
is_lock_valid(f, at) ==
  /\ Exists(f)
  /\ fromisoformat(f[1]) # -1
  /\ ~(at - fromisoformat(f[1]) > Cooldown)

\* an entry cache_manager.get(key) returns the data of (cache.py 45-58)
Fresh(f, at) == Parses(f) /\ ~cache_expired(f, default_ttl, at)

\* what the fetch comes to: the usage of today, or None
Fetched == {PyValue("v2", "str"), None}

\* `uLast` after a step of the clock
NoUsageStep ==
  [u |-> 0, op |-> "none", ret |-> "-", force |-> FALSE, read |-> NoFile,
   prev |-> -1, gone |-> FALSE, fetched |-> "-"]

\* a step of the call of updater u; v is what the call returns, "-" if it goes on
UsageStepOf(u, o, v) ==
  [u |-> u, op |-> o, ret |-> v, force |-> uForce[u], read |-> cacheFile[UsageKey],
   prev |-> lastFetch, gone |-> uGone[u], fetched |-> uFetched[u]]

\* the call of updater u returns: its locals go
UsageReturns(u) ==
  /\ uPc' = [uPc EXCEPT ![u] = "idle"]
  /\ uForce' = [uForce EXCEPT ![u] = FALSE]
  /\ uRes' = [uRes EXCEPT ![u] = "-"]
  /\ uGone' = [uGone EXCEPT ![u] = FALSE]
  /\ uFetched' = [uFetched EXCEPT ![u] = "-"]

\* an update_usage that probes the cooldown before it looks at the lock
update_usage_probing(u, force) ==
  /\ uPc[u] = "idle"
  /\ uCalls < MaxUsageCalls
  /\ uCalls' = uCalls + 1
  /\ cacheFile' = IF Fresh(cacheFile[UsageKey], now) THEN cacheFile
                  ELSE [cacheFile EXCEPT ![UsageKey] = NoFile]
  /\ written' = IF Fresh(cacheFile[UsageKey], now) THEN written ELSE Forget({UsageKey})
  /\ IF is_lock_valid(uLock, now) /\ ~force
       THEN /\ uLast' = [UsageStepOf(u, "lock_check", "False") EXCEPT !.force = force]
            /\ UNCHANGED <<uPc, uForce>>
       ELSE /\ uPc' = [uPc EXCEPT ![u] = IF force THEN "create" ELSE "cooldown"]
            /\ uForce' = [uForce EXCEPT ![u] = force]
            /\ uLast' = [UsageStepOf(u, "lock_check", "-") EXCEPT !.force = force]
  /\ UNCHANGED <<uLock, uRes, uGone, uFetched, lastFetch, uTicks>>
  /\ UNCHANGED <<now, cacheCalls, ticks, cacheLast, varsLock, varsJson, varsDaemon,
                 varsTasks>>

\* update_usage(force), lines 270-282: with a valid lock and no force, return
\* False; else on to the cooldown check, which force skips (line 285)
update_usage(u, force) ==
  /\ uPc[u] = "idle"
  /\ uCalls < MaxUsageCalls
  /\ uCalls' = uCalls + 1
  /\ IF is_lock_valid(uLock, now) /\ ~force
       THEN /\ uLast' = [UsageStepOf(u, "lock_check", "False") EXCEPT !.force = force]
            /\ UNCHANGED <<uPc, uForce>>
       ELSE /\ uPc' = [uPc EXCEPT ![u] = IF force THEN "create" ELSE "cooldown"]
            /\ uForce' = [uForce EXCEPT ![u] = force]
            /\ uLast' = [UsageStepOf(u, "lock_check", "-") EXCEPT !.force = force]
  /\ UNCHANGED <<uLock, uRes, uGone, uFetched, lastFetch, uTicks>>
  /\ UNCHANGED <<now, varsLock, varsCache, varsJson, varsDaemon, varsTasks>>

\* is_cooldown_active(), lines 83-97, and lines 285-287: cache_manager.get(key)
\* unlinks an entry older than default_ttl and returns None (cache.py 52-55);
\* the entry it returns is younger than that, so its file is younger than the
\* cooldown: return True
uu_cooldown(u) ==
  /\ uPc[u] = "cooldown"
  /\ LET entry == cacheFile[UsageKey]
         gone == Parses(entry) /\ ~Fresh(entry, now)
         active == Fresh(entry, now) /\ now - entry[1].cached_at < Cooldown
     IN  /\ cacheFile' = IF gone THEN [cacheFile EXCEPT ![UsageKey] = NoFile]
                         ELSE cacheFile
         /\ written' = IF gone THEN Forget({UsageKey}) ELSE written
         /\ IF active
              THEN /\ uLast' = UsageStepOf(u, "cooldown", "True")
                   /\ UsageReturns(u)
              ELSE /\ uLast' = UsageStepOf(u, "cooldown", "-")
                   /\ uPc' = [uPc EXCEPT ![u] = "create"]
                   /\ uGone' = [uGone EXCEPT ![u] = gone]
                   /\ UNCHANGED <<uForce, uRes, uFetched>>
  /\ UNCHANGED <<uLock, lastFetch, uCalls, uTicks>>
  /\ UNCHANGED <<now, cacheCalls, ticks, cacheLast, varsLock, varsJson, varsDaemon,
                 varsTasks>>

\* create_lock(), lines 61-70, and lines 290-292: the lock file is written
\* over whatever is there; when it cannot be opened, return False
uu_create(u, ok) ==
  /\ uPc[u] = "create"
  /\ IF ok
       THEN /\ uLock' = <<LockText(now, u)>>
            /\ uPc' = [uPc EXCEPT ![u] = "fetch"]
            /\ uLast' = UsageStepOf(u, "create", "-")
            /\ UNCHANGED <<uForce, uRes, uGone, uFetched>>
       ELSE /\ uLast' = UsageStepOf(u, "create", "False")
            /\ UsageReturns(u)
            /\ UNCHANGED uLock
  /\ UNCHANGED <<lastFetch, uCalls, uTicks>>
  /\ UNCHANGED <<now, varsLock, varsCache, varsJson, varsDaemon, varsTasks>>

\* lines 294-310: get_usage_from_ccusage() gives data or None (it catches every
\* exception, lines 99-145); data goes to update_usage_cache, whose
\* cache_manager.set succeeds or not (lines 247-268)
uu_fetch(u, result, ok) ==
  /\ uPc[u] = "fetch"
  /\ lastFetch' = IF uForce[u] THEN lastFetch ELSE now
  /\ uFetched' = [uFetched EXCEPT ![u] = IF result = None THEN "none" ELSE "data"]
  /\ IF result # None /\ ok
       THEN /\ cacheFile' = [cacheFile EXCEPT ![UsageKey] =
                               <<CacheText(result, now, default_ttl)>>]
            /\ written' = [written EXCEPT ![UsageKey] = <<[data |-> result, at |-> now]>>]
       ELSE UNCHANGED <<cacheFile, written>>
  /\ uRes' = [uRes EXCEPT ![u] = PyBool(result # None /\ ok)]
  /\ uPc' = [uPc EXCEPT ![u] = "finally"]
  /\ uLast' = UsageStepOf(u, "fetch", "-")
  /\ UNCHANGED <<uLock, uForce, uGone, uCalls, uTicks>>
  /\ UNCHANGED <<now, cacheCalls, ticks, cacheLast, varsLock, varsJson, varsDaemon,
                 varsTasks>>

\* a finally clause that leaves the lock file when the update failed
uu_finally_keeps(u) ==
  /\ uPc[u] = "finally"
  /\ uLock' = IF uRes[u] = "True" THEN NoFile ELSE uLock
  /\ uLast' = UsageStepOf(u, "finally", uRes[u])
  /\ UsageReturns(u)
  /\ UNCHANGED <<lastFetch, uCalls, uTicks>>
  /\ UNCHANGED <<now, varsLock, varsCache, varsJson, varsDaemon, varsTasks>>

\* lines 312-314 and remove_lock(), lines 72-81: unlink the lock file if it
\* exists; the call returns
uu_finally(u) ==
  /\ uPc[u] = "finally"
  /\ uLock' = NoFile
  /\ uLast' = UsageStepOf(u, "finally", uRes[u])
  /\ UsageReturns(u)
  /\ UNCHANGED <<lastFetch, uCalls, uTicks>>
  /\ UNCHANGED <<now, varsLock, varsCache, varsJson, varsDaemon, varsTasks>>

\* time passes
UsageTick ==
  /\ uTicks < MaxUsageTicks
  /\ uTicks' = uTicks + 1
  /\ now' = now + UsageStep
  /\ uLast' = NoUsageStep
  /\ UNCHANGED <<uLock, uPc, uForce, uRes, uGone, uFetched, lastFetch, uCalls>>
  /\ UNCHANGED <<varsLock, varsCache, varsJson, varsDaemon, varsTasks>>

\* ----------------------------------------------------------- specification

\* records found in the lock directory at start: none, one a foreign holder
\* wrote just now, or one written 2 * TTL ago and abandoned
InitialFiles(k) ==
  {NoFile} \cup {<<ForeignInfo(k, at)>> : at \in {0, 0 - 2 * default_timeout}}

InitLock ==
  /\ calls = 0
  /\ lockFile \in {f \in [Keys -> UNION {InitialFiles(k) : k \in Keys}] :
                     \A k \in Keys : f[k] \in InitialFiles(k)}
  /\ memory_locks = [p \in Pids |-> {}]
  /\ lock_registry = [p \in Pids |-> [k \in Keys |-> <<>>]]
  /\ pc = [t \in Threads |-> "idle"]
  /\ op = [t \in Threads |-> "none"]
  /\ key = [t \in Threads |-> NoKey]
  /\ timeout = [t \in Threads |-> 0]
  /\ start_time = [t \in Threads |-> 0]
  /\ exc = [t \in Threads |-> "none"]
  /\ todo = [t \in Threads |-> {}]
  /\ cleaned_count = [t \in Threads |-> 0]
  /\ retried = [t \in Threads |-> FALSE]
  /\ holds = [t \in Threads |-> {}]
  /\ last = NoStep

\* a cache directory that is empty or holds a damaged file
InitCache ==
  /\ cacheFile \in {f \in [CacheKeys -> {NoFile, <<Malformed>>, <<Undecodable>>}] :
                      Cardinality({k \in CacheKeys : Exists(f[k])}) <= 1}
  /\ cacheCalls = 0
  /\ ticks = 0
  /\ cacheLast = NoCall
  /\ written = [k \in CacheKeys |-> <<>>]

\* no caller is inside safe_json_read / safe_json_write; the cache file is
\* absent or holds a document written earlier
InitJson ==
  /\ jPc = [t \in Callers |-> "idle"]
  /\ jOp = [t \in Callers |-> "none"]
  /\ jDoc = [t \in Callers |-> ""]
  /\ jStart = [t \in Callers |-> 0]
  /\ jRes = [t \in Callers |-> "-"]
  /\ jFd = [t \in Callers |-> 0]
  /\ flFile = NoFile
  /\ jCalls = 0
  /\ jLast = NoReturn
  /\ jInPlace = {}
  /\ \E c \in {<<>>, Encode("a")} :
       /\ dirent = [n \in Names |-> IF n = "cache" /\ c # <<>> THEN 1 ELSE 0]
       /\ inode = [i \in Inodes |-> IF i = 1 THEN c ELSE <<>>]

\* every process has a new manager (lines 40-42); the PID file is absent or
\* left over with text that is no pid
InitDaemon ==
  /\ pid_file \in {NoFile, <<Garbage>>}
  /\ alive = [p \in Procs |-> TRUE]
  /\ os_bound \in [Procs -> BOOLEAN]
  /\ running = [p \in Procs |-> FALSE]
  /\ threads = [p \in Procs |-> 0]
  /\ dPc = [p \in Procs |-> "idle"]
  /\ dCalls = 0
  /\ dLast = NoDaemonCall

\* no daemon, no PID file, every process a script
QuietDaemon ==
  /\ InitDaemon
  /\ pid_file = NoFile
  /\ os_bound = [p \in Procs |-> TRUE]

\* no loop is running, nothing has been recorded or persisted
QuietTasks ==
  /\ tPc = [k \in Loops |-> "ended"]
  /\ last_status = NoTasks
  /\ runs = [k \in Tasks |-> 0]
  /\ status_data = <<>>
  /\ status_file = NoFile
  /\ beats = 0
  /\ tLast = NoLoopStep

\* start() of the manager process has just returned True (lines 68-99): the
\* PID file is written, running is set, every loop is at its first test
InitTasks ==
  /\ tPc = [k \in Loops |-> "test"]
  /\ last_status = NoTasks
  /\ runs = [k \in Tasks |-> 0]
  /\ status_data = <<>>
  /\ status_file = NoFile
  /\ beats = 0
  /\ tLast = NoLoopStep

StartedDaemon ==
  /\ os_bound \in {f \in [Procs -> BOOLEAN] : \A p \in Procs \ {Manager} : f[p]}
  /\ pid_file = <<IF os_bound[Manager] THEN str(Manager) ELSE EmptyText>>
  /\ alive = [p \in Procs |-> TRUE]
  /\ running = [p \in Procs |-> p = Manager]
  /\ threads = [p \in Procs |-> IF p = Manager THEN Cardinality(Loops) ELSE 0]
  /\ dPc = [p \in Procs |-> "idle"]
  /\ dCalls = 0
  /\ dLast = NoDaemonCall

\* no update_usage is in progress and there is no lock file
InitUsage ==
  /\ uLock = NoFile
  /\ uPc = [u \in Updaters |-> "idle"]
  /\ uForce = [u \in Updaters |-> FALSE]
  /\ uRes = [u \in Updaters |-> "-"]
  /\ uGone = [u \in Updaters |-> FALSE]
  /\ uFetched = [u \in Updaters |-> "-"]
  /\ lastFetch = -1
  /\ uCalls = 0
  /\ uTicks = 0
  /\ uLast = NoUsageStep

\* the lock manager at rest, with an empty lock directory
QuietLock == InitLock /\ lockFile = [k \in Keys |-> NoFile]

\* safe_json_read / safe_json_write at rest, with no cache file
QuietJson == InitJson /\ dirent["cache"] = 0

\* the cache manager at rest, with an empty cache directory
QuietCache == InitCache /\ cacheFile = [k \in CacheKeys |-> NoFile]

InitSpecLock ==
  /\ now = 0
  /\ InitLock
  /\ QuietCache
  /\ QuietJson
  /\ QuietDaemon
  /\ QuietTasks
  /\ InitUsage

InitSpecCache ==
  /\ now = 0
  /\ QuietLock
  /\ InitCache
  /\ QuietJson
  /\ QuietDaemon
  /\ QuietTasks
  /\ InitUsage

InitSpecDaemon ==
  /\ now = 0
  /\ QuietLock
  /\ QuietCache
  /\ QuietJson
  /\ InitDaemon
  /\ QuietTasks
  /\ InitUsage

InitSpecTasks ==
  /\ now = 0
  /\ QuietLock
  /\ QuietCache
  /\ QuietJson
  /\ StartedDaemon
  /\ InitTasks
  /\ InitUsage

\* the manager some time after start(): every task has run at most once and
\* sleeps out its interval (300 s and more, against the 60 s of the status
\* loop)
InitSpecStatus ==
  /\ now = 0
  /\ QuietLock
  /\ QuietCache
  /\ QuietJson
  /\ StartedDaemon
  /\ tPc = [k \in Loops |-> "test"]
  /\ last_status \in [Tasks -> {<<>>, <<TaskStatus("done")>>, <<TaskStatus("raised")>>}]
  /\ runs = [k \in Tasks |-> IF last_status[k] = <<>> THEN 0 ELSE 1]
  /\ status_data = <<>>
  /\ status_file = NoFile
  /\ beats = 0
  /\ tLast = NoLoopStep
  /\ InitUsage

\* no update in progress; today's usage is not cached, or was cached by an
\* update that has just run
InitSpecUsage ==
  /\ now = 0
  /\ QuietLock
  /\ QuietJson
  /\ QuietDaemon
  /\ QuietTasks
  /\ InitUsage
  /\ cacheCalls = 0
  /\ ticks = 0
  /\ cacheLast = NoCall
  /\ \E f \in {NoFile, <<CacheText(PyValue("v1", "str"), 0, default_ttl)>>} :
       /\ cacheFile = [k \in CacheKeys |-> IF k = UsageKey THEN f ELSE NoFile]
       /\ written = [k \in CacheKeys |-> IF k = UsageKey /\ f # NoFile
                                          THEN <<[data |-> PyValue("v1", "str"), at |-> 0]>>
                                          ELSE <<>>]

InitSpecJson ==
  /\ now = 0
  /\ QuietLock
  /\ QuietCache
  /\ InitJson
  /\ QuietDaemon
  /\ QuietTasks
  /\ InitUsage

NextLock ==
  \/ \E t \in Threads, k \in Keys, to \in Timeouts : acquire_lock(t, k, to)
  \/ \E t \in Threads, k \in Keys, to \in Timeouts : lock(t, k, to)
  \/ \E t \in Threads : aq_exists(t)
  \/ \E t \in Threads : aq_expired(t)
  \/ \E t \in Threads : aq_unlink(t)
  \/ \E t \in Threads : aq_write(t)
  \/ \E t \in Threads, k \in Keys : release_lock(t, k)
  \/ \E t \in Threads, e \in {"none", "BodyError"} : lock_body_exit(t, e)
  \/ \E t \in Threads : rl_check(t)
  \/ \E t \in Threads : rl_unlink(t)
  \/ \E t \in Threads, k \in Keys : is_locked(t, k)
  \/ \E t \in Threads : il_exists(t)
  \/ \E t \in Threads : il_expired(t)
  \/ \E t \in Threads : il_unlink(t)
  \/ \E t \in Threads, k \in Keys : force_release_lock(t, k)
  \/ \E t \in Threads : fr_exists(t)
  \/ \E t \in Threads : fr_unlink(t)
  \/ \E t \in Threads : cleanup_expired_locks(t)
  \/ \E t \in Threads : cl_next(t)
  \/ \E t \in Threads : cl_unlink(t)
  \/ Tick

\* the lock manager used by the threads of two processes
SpecLock == InitSpecLock /\ [][NextLock]_vars

\* holders that never release: the only calls are acquire_lock and the sweep
NextAbandoned ==
  \/ \E t \in Threads, k \in Keys, to \in Timeouts : acquire_lock(t, k, to)
  \/ \E t \in Threads : aq_exists(t)
  \/ \E t \in Threads : aq_expired(t)
  \/ \E t \in Threads : aq_unlink(t)
  \/ \E t \in Threads : aq_write(t)
  \/ \E t \in Threads : cleanup_expired_locks(t)
  \/ \E t \in Threads : cl_next(t)
  \/ \E t \in Threads : cl_unlink(t)
  \/ Tick

\* the steps by which an acquire_lock or a sweep that thread t has called
\* runs on to its return
Continues(t) ==
  \/ aq_exists(t) \/ aq_expired(t) \/ aq_unlink(t) \/ aq_write(t)
  \/ cl_next(t) \/ cl_unlink(t)

\* the lock manager with holders that never release and threads that are
\* scheduled again and again: a method that has been called is not suspended
\* for ever
SpecLockFair ==
  InitSpecLock /\ [][NextAbandoned]_vars /\ \A t \in Threads : WF_vars(Continues(t))

NextCache ==
  \/ \E k \in CacheKeys, v \in Payloads, ttl \in TtlArgs, ok \in BOOLEAN :
       cache_set(k, v, ttl, ok)
  \/ \E k \in CacheKeys, ttl \in TtlArgs : cache_get(k, ttl)
  \/ \E k \in CacheKeys : cache_delete(k)
  \/ cleanup_expired
  \/ \E d \in {ShortStep, LongStep} : CacheTick(d)

\* the cache manager used by one caller at a time
SpecCache == InitSpecCache /\ [][NextCache]_vars

NextJson ==
  \/ \E t \in Callers, d \in Docs : safe_json_write(t, d)
  \/ \E t \in Callers : safe_json_read(t)
  \/ \E t \in Callers : fl_exists(t)
  \/ \E t \in Callers : fl_touch(t)
  \/ \E t \in Callers : fl_stat(t)
  \/ \E t \in Callers : fl_unlink(t)
  \/ \E t \in Callers : wr_open(t)
  \/ \E t \in Callers, n \in 0..DocLen("bb") : wr_write(t, n)
  \/ \E t \in Callers, fails \in BOOLEAN : wr_replace(t, fails)
  \/ \E t \in Callers : rd_load(t)
  \/ \E t \in Callers : fl_exit(t)
  \/ unlink_cache_file
  \/ \E t \in Callers : Kill(t)
  \/ JsonTick

\* safe_json_read and safe_json_write called concurrently on one cache file
SpecJson == InitSpecJson /\ [][NextJson]_vars


NextDaemon ==
  \/ \E p \in Procs : start(p)
  \/ \E p \in Procs : st_write(p)
  \/ \E p \in Procs : stop(p)
  \/ \E p \in Procs : is_running(p)
  \/ \E p \in Procs : main_stop(p)
  \/ \E p \in Procs : run_forever(p)
  \/ \E p \in Procs : rf_start(p)
  \/ \E p \in Procs : rf_exit(p)
  \/ \E p \in Procs : loops_exit(p)
  \/ \E p \in Procs : Crash(p)

\* the managers of several processes on one PID file
SpecDaemon == InitSpecDaemon /\ [][NextDaemon]_vars

NextTasks ==
  \/ \E k \in Tasks : run_test(k)
  \/ \E k \in Tasks, outcome \in Outcomes : run_body(k, outcome)
  \/ stop(Manager)

\* the task loops of a started manager
SpecTasks == InitSpecTasks /\ [][NextTasks]_vars

NextStatus ==
  \/ hb_test
  \/ hb_build
  \/ hb_open
  \/ hb_dump
  \/ get_status
  \/ stop(Manager)

\* the status loop of a started manager, and status queries from any process
SpecStatus == InitSpecStatus /\ [][NextStatus]_vars

NextUsage ==
  \/ \E u \in Updaters, force \in BOOLEAN : update_usage(u, force)
  \/ \E u \in Updaters : uu_cooldown(u)
  \/ \E u \in Updaters, ok \in BOOLEAN : uu_create(u, ok)
  \/ \E u \in Updaters, result \in Fetched, ok \in BOOLEAN :
       uu_fetch(u, result, ok)
  \/ \E u \in Updaters : uu_finally(u)
  \/ UsageTick

\* update_usage called by several processes
SpecUsage == InitSpecUsage /\ [][NextUsage]_vars
\* ------------------------------------------------------- properties: locks

\* the statements of an acquire_lock in progress
AcquirePcs == {"aq_exists", "aq_expired", "aq_unlink", "aq_write"}

\* thread t takes a step of the method it is in
StepOf(t) == pc'[t] # pc[t]

\* a record of the holder outside the model: no thread writes one, so while it
\* is in the lock file it has been there since before every call in progress
Outsider(f) == Exists(f) /\ f[1].pid = 0

\* C1: two threads of one process never hold the same key at the same time:
\* of two acquire_lock calls on one key, the second returns True only after
\* the first holder's release.
C1_MutualExclusion ==
  \A t1, t2 \in Threads, k \in Keys :
    (t1 # t2 /\ getpid(t1) = getpid(t2) /\ k \in holds[t1]) => k \notin holds[t2]

\* C2: while a record younger than the lock TTL, written by another identity
\* before the call, is in the lock file, no step of an acquire_lock deletes or
\* overwrites it and the acquire_lock does not return True.
C2_LiveRecordBlocksAcquire ==
  [][\A t \in Threads :
       (/\ pc[t] \in AcquirePcs
        /\ StepOf(t)
        /\ Outsider(lockFile[key[t]])
        /\ Live(lockFile[key[t]], now))
       => (/\ lockFile'[key[t]] = lockFile[key[t]]
           /\ key[t] \notin holds'[t])]_vars

\* C3: a release_lock that finds in the lock file a record carrying another
\* (pid, thread id) than the caller's returns False and leaves the record
\* as it is.
C3_ReleaseByNonHolder ==
  [][\A t \in Threads :
       (/\ pc[t] = "rl_check"
        /\ StepOf(t)
        /\ Exists(lockFile[key[t]])
        /\ ~OwnedBy(lockFile[key[t]], t))
       => (/\ pc'[t] = "idle"
           /\ last'.t = t
           /\ last'.ret = "False"
           /\ lockFile' = lockFile)]_vars

\* C3: a release_lock has just returned False to a thread that is not the
\* one named in the record, and the record is still in the lock file
C3_Witness ==
  /\ last.op = "release_lock"
  /\ last.ret = "False"
  /\ Exists(lockFile[last.key])
  /\ ~OwnedBy(lockFile[last.key], last.t)

\* C4: release_lock called by the thread whose acquire_lock returned True, with
\* that thread's record in the lock file, returns True and deletes the record:
\* it never returns False with the caller's record still there.
C4_ReleaseByHolder ==
  ~(/\ last.op = "release_lock"
    /\ last.held
    /\ last.ret = "False"
    /\ Exists(lockFile[last.key])
    /\ OwnedBy(lockFile[last.key], last.t))

\* C5: the block of lock() runs only after the acquire_lock inside returned
\* True; a failed acquisition raises TimeoutError; and when lock() has ended
\* after its block ran (normally or by an exception), the caller's record is
\* no longer in the lock file.
C5_ScopedLock ==
  /\ \A t \in Threads : pc[t] = "body" => key[t] \in holds[t]
  /\ (last.op = "lock" /\ last.ret = "False" /\ ~last.held)
       => last.exc = "TimeoutError"
  /\ (last.op = "lock" /\ last.ret # "-" /\ last.exc # "TimeoutError"
        /\ pc[last.t] = "idle")
       => ~(Exists(lockFile[last.key]) /\ OwnedBy(lockFile[last.key], last.t))

\* C6: is_locked returns True exactly when a record younger than the lock TTL
\* is in the lock file, and it never deletes such a record: a True answer has a
\* live record behind it, and a False answer has removed no live record and
\* leaves none.
C6_IsLockedIffLive ==
  (last.op = "is_locked" /\ last.ret # "-")
    => (/\ last.ret = "True" => Live(lockFile[last.key], now)
        /\ last.ret = "False" => ~Live(last.removed, now))

\* C7: an acquire_lock that finds a record older than the lock TTL does not
\* fail that attempt: it goes on to unlink the record, writes its own and
\* returns True, without another round of the polling loop.
C7_StaleLockReclaimed ==
  [][\A t \in Threads :
       /\ (pc[t] = "aq_expired" /\ StepOf(t) /\ Stale(lockFile[key[t]], now))
            => (pc'[t] = "aq_unlink" /\ retried'[t] = retried[t])
       /\ (pc[t] = "aq_unlink" /\ StepOf(t))
            => (pc'[t] = "aq_write" /\ lockFile'[key[t]] = NoFile)
       /\ (pc[t] = "aq_write" /\ StepOf(t))
            => (/\ last'.t = t
                /\ last'.ret = "True"
                /\ lockFile'[key[t]] = <<LockInfo(key[t], t, now)>>)]_vars

\* C7: an acquire_lock on its first attempt has just unlinked a record older
\* than the lock TTL and is about to write its own
C7_Witness ==
  /\ last.op \in {"acquire_lock", "lock"}
  /\ last.ret = "-"
  /\ Stale(last.removed, now)
  /\ ~last.retried
  /\ pc[last.t] = "aq_write"
  /\ ~Exists(lockFile[last.key])

\* C8: a record younger than the lock TTL leaves the lock file only through a
\* release_lock of the thread named in it or through force_release_lock; no
\* acquire_lock, is_locked or cleanup_expired_locks unlinks or overwrites it.
C8_LiveRecordLifecycle ==
  Live(last.removed, now)
    => \/ last.op = "force_release_lock"
       \/ /\ last.op \in {"release_lock", "lock"}
          /\ pc[last.t] = "idle"
          /\ last.ret = "True"
          /\ OwnedBy(last.removed, last.t)

\* C9: force_release_lock returns False when there is no lock file; otherwise
\* it unlinks the file, whoever is named in the record and whatever its age,
\* and returns True; and an acquire_lock that finds no lock file writes its
\* record and returns True.
C9_ForceRelease ==
  [][\A t \in Threads :
       /\ (pc[t] = "fr_exists" /\ StepOf(t))
            => IF Exists(lockFile[key[t]])
                 THEN pc'[t] = "fr_unlink" /\ lockFile' = lockFile
                 ELSE last'.t = t /\ last'.ret = "False" /\ lockFile' = lockFile
       /\ (pc[t] = "fr_unlink" /\ StepOf(t))
            => (/\ lockFile'[key[t]] = NoFile
                /\ last'.t = t
                /\ last'.ret = "True")
       /\ (pc[t] = "aq_exists" /\ StepOf(t) /\ ~Exists(lockFile[key[t]]))
            => pc'[t] = "aq_write"
       /\ (pc[t] = "aq_write" /\ StepOf(t))
            => key[t] \in holds'[t]]_vars

\* C9: a force_release_lock has just returned True after unlinking a record
\* younger than the lock TTL that names another thread or process
C9_Witness ==
  /\ last.op = "force_release_lock"
  /\ last.ret = "True"
  /\ Live(last.removed, now)
  /\ ~OwnedBy(last.removed, last.t)
  /\ ~Exists(lockFile[last.key])

\* ------------------------------------------------------- properties: cache

\* C10: a get(key) without a ttl of its own that finds an entry returns None
\* exactly when the entry is older than the ttl the set that wrote it stored
\* in it.
C10_TTLCorrectness ==
  (cacheLast.op = "get" /\ cacheLast.ttl = 0 /\ Parses(cacheLast.read))
    => (cacheLast.ret = "None"
          <=> now - cacheLast.read[1].cached_at > cacheLast.read[1].ttl)

\* ----------------------------------- properties: safe_json_read / _write

\* the cache file exists and its text is no whole document
Torn == dirent["cache"] # 0 /\ Decode(inode[dirent["cache"]]) = "malformed"

\* C11: whatever the interleaving of concurrent writers and readers of one
\* cache file, and wherever a writer is killed, the cache file never holds a
\* torn record and a read returns a whole document or nothing.
C11_AtomicPersistence ==
  /\ ~Torn
  /\ jLast.op = "read" => jLast.ret \in Docs \cup {"None"}


\* C14: a safe_json_write that returns False (the write or the rename failed,
\* or the FileLock timed out) has left the content of the cache file alone, so
\* that a later get returns the value stored before
C14_FailedSetContained ==
  (jLast.op = "write" /\ jLast.ret = "False") => ~jLast.inplace

\* ------------------------------------------------ cache manager properties

C13_SelfCleaningRead ==
  (cacheLast.op = "get" /\ Parses(cacheLast.read))
  => IF cacheLast.ret = "None"
       THEN cacheFile[cacheLast.key] = NoFile
       ELSE cacheFile[cacheLast.key] = cacheLast.read

C13_Witness ==
  /\ cacheLast.op = "get"
  /\ Parses(cacheLast.read)
  /\ cacheLast.ret = "None"
  /\ cacheLast.removed = {cacheLast.key}
  /\ cacheFile[cacheLast.key] = NoFile

\* a file that json.load or the UTF-8 decoder rejects
Unparsable(f) == Exists(f) /\ ~Parses(f)

\* C15: cleanup_expired removes every entry older than its stored ttl and every
\* file that cannot be parsed, leaves the parseable unexpired entries, and
\* returns the number of files it removed
C15_CacheSweep ==
  [][cacheLast'.op = "cleanup_expired" =>
       \A k \in CacheKeys :
         LET f == cacheFile[k]
             due == \/ Unparsable(f)
                    \/ Parses(f) /\ now - f[1].cached_at > f[1].ttl
         IN  /\ due => cacheFile'[k] = NoFile /\ k \in cacheLast'.removed
             /\ ~due => cacheFile'[k] = f /\ k \notin cacheLast'.removed]_vars

\* C16: get on a file that does not parse returns None and the file is gone
C16_CorruptRecordOnRead ==
  (cacheLast.op = "get" /\ Unparsable(cacheLast.read))
  => (cacheLast.ret = "None" /\ cacheFile[cacheLast.key] = NoFile)

\* ------------------------------------------- background manager properties

\* C17: on a manager that was started and not stopped since, start() returns
\* False and stop() removes the PID file; on a manager that is not started,
\* with no PID file, start() returns True
C17_SingletonDaemon ==
  /\ (dLast.op = "start" /\ dLast.flag) => dLast.ret = "False"
  /\ (dLast.op = "stop" /\ dLast.flag) => pid_file = NoFile
  /\ (dLast.op = "start" /\ ~dLast.flag /\ dLast.before = NoFile)
       => dLast.ret = "True"

\* C18: a start() that returns False has launched no loop, has not set the
\* running flag and has left the PID file as it was
C18_SingletonConflictNoEffect ==
  [][(dLast'.op = "start" /\ dLast'.ret = "False")
       => UNCHANGED <<pid_file, running, threads>>]_vars

C18_Witness ==
  /\ dLast.op = "start"
  /\ dLast.ret = "False"
  /\ dLast.ran
  /\ ~running[dLast.p]
  /\ dLast.before = pid_file

\* C19: with a PID file that names no live process or holds no number,
\* is_running() is False, and start() returns True and leaves the pid of the
\* calling process in the PID file
C19_StaleHandleSelfHeals ==
  /\ (dLast.op = "is_running" /\ StaleHandle(dLast.before, alive))
       => dLast.ret = "False"
  /\ (dLast.op = "start" /\ StaleHandle(dLast.before, alive))
       => (dLast.ret = "True" /\ pid_file = <<str(dLast.p)>>)

\* C20: after a stop() called when is_running() was true, and after a `stop`
\* command that exits 0, the PID file is gone and is_running() is false
C20_StopRemovesDaemon ==
  (\/ dLast.op = "stop" /\ dLast.ran
   \/ dLast.op = "main_stop" /\ dLast.ret = "0")
  => (/\ pid_file = NoFile
      /\ ~IsRunning(pid_file, os_bound[dLast.p], alive))

\* ----------------------------------------------- task loop properties

\* C21: an iteration of one task's loop changes neither the recorded status,
\* nor the number of completed iterations, nor the position of any other
\* task's loop, whatever the iteration came to; and while the manager is
\* running no task loop has ended
C21_TaskIsolation ==
  /\ [](running[Manager] => \A k \in Tasks : tPc[k] # "ended")
  /\ [][tLast'.op = "iteration" =>
          \A j \in Tasks \ {tLast'.task} :
            /\ last_status'[j] = last_status[j]
            /\ runs'[j] = runs[j]
            /\ tPc'[j] = tPc[j]]_vars

C21_Witness ==
  /\ tLast.op = "iteration"
  /\ tLast.outcome = "raised"
  /\ runs[tLast.task] = 2
  /\ \E j \in Tasks \ {tLast.task} :
       /\ runs[j] = 1
       /\ last_status[j] = <<TaskStatus("done")>>
       /\ tPc[j] = "test"

\* C22: the status recorded for an iteration has success = True exactly when
\* the work of the iteration succeeded, and names an error when it did not
C22_FailureRecorded ==
  tLast.op = "iteration" =>
    /\ last_status[tLast.task][1].success = (tLast.outcome = "done")
    /\ tLast.outcome # "done" => last_status[tLast.task][1].error # ""

\* the snapshots the status loop builds
Snapshots ==
  {[manager_status |-> m, tasks |-> ls] :
     m \in {"running", "stopped"},
     ls \in [Tasks -> {<<>>, <<TaskStatus("done")>>, <<TaskStatus("raised")>>}]}

\* C23: get_status returns "not_running" when there is no status file, and
\* else the snapshot the file was written from; it changes neither the
\* running flag, nor the threads, nor the PID file, nor the status file
C23_StatusSnapshot ==
  /\ [](tLast.op = "get_status" =>
          IF status_file = NoFile
            THEN tLast.ret = NotRunning
            ELSE \E d \in Snapshots :
                   /\ status_file[1] = StatusText(d)
                   /\ tLast.ret = d)
  /\ [][(tLast.op # "get_status" /\ tLast'.op = "get_status") =>
          UNCHANGED <<running, threads, pid_file, status_file>>]_vars

C25_CooldownCollapsing ==
  (uLast.op = "fetch" /\ ~uLast.force /\ uLast.prev # -1)
  => now - uLast.prev >= Cooldown

\* C26: the cooldown check of a non-forced call that finds an entry older than
\* the cache ttl in a file younger than the cooldown ends the call with True
\* and leaves the entry in place
C26_CooldownCoversStale ==
  (/\ uLast.op = "cooldown"
   /\ Parses(uLast.read)
   /\ ~Fresh(uLast.read, now)
   /\ now - uLast.read[1].cached_at < Cooldown)
  => (/\ uLast.ret = "True"
      /\ cacheFile[UsageKey] = uLast.read)

\* C27: a non-forced call that finds the entry fresh returns True, whatever
\* the lock file holds
C27_FreshHotPath ==
  (/\ uLast.op \in {"lock_check", "cooldown"}
   /\ uLast.ret # "-"
   /\ ~uLast.force
   /\ Fresh(uLast.read, now))
  => uLast.ret = "True"

\* C28: a call whose fetch gave no data has not removed the cache entry
C28_FailedFetchKeepsEntry ==
  (uLast.op = "finally" /\ uLast.fetched = "none") => ~uLast.gone

\* C29: when a call that created the lock file returns, the lock file is gone;
\* no lock file is left by an updater that is in no call
C29_LockReleased ==
  /\ (uLast.op = "finally" /\ uLast.ret # "-") => uLock = NoFile
  /\ \A u \in Updaters : (Exists(uLock) /\ uLock[1].by = u) => uPc[u] # "idle"

C29_Witness ==
  /\ uLast.op = "finally"
  /\ uLast.ret = "False"
  /\ uLast.fetched = "none"
  /\ uLock = NoFile

\* C30: a non-forced call that finds a valid lock returns False and changes
\* neither the lock file nor the cache entry, and fetches nothing
C30_ContendedNeverBlocks ==
  [][(uLast'.op = "lock_check" /\ uLast'.ret = "False")
       => UNCHANGED <<uLock, cacheFile, lastFetch, uFetched>>]_vars

C30_Witness ==
  /\ uLast.op = "lock_check"
  /\ uLast.ret = "False"
  /\ is_lock_valid(uLock, now)
  /\ uLock[1].by # uLast.u
  /\ Parses(cacheFile[UsageKey])
  /\ ~Fresh(cacheFile[UsageKey], now)

\* ------------------------------------------------ concurrency properties

\* C31: at most one non-forced update_usage call is between create_lock and
\* the end of its fetch at any moment
C31_OneFetchInFlight ==
  Cardinality({u \in Updaters : uPc[u] = "fetch" /\ ~uForce[u]}) <= 1

\* C39: the finally clause of an update_usage call leaves the lock file alone
\* when another call, still in progress, has written it
C39_LockRemovedByCreator ==
  [][\A u \in Updaters :
       (/\ uPc[u] = "finally"
        /\ uPc'[u] = "idle"
        /\ Exists(uLock)
        /\ uLock[1].by # u
        /\ uPc[uLock[1].by] \in {"fetch", "finally"})
       => uLock' = uLock]_vars

\* a caller is between FileLock.__enter__ and FileLock.__exit__
InCritical(t) == jPc[t] \in {"wr_open", "wr_write", "wr_replace", "rd_load", "fl_exit"}

\* C40: at most one caller is inside the FileLock critical section of the
\* cache file; and a caller that leaves it while another is inside leaves the
\* lock file in place
C40_FileLockExclusion ==
  /\ [](Cardinality({t \in Callers : InCritical(t)}) <= 1)
  /\ [][\A t \in Callers :
          (/\ jPc[t] = "fl_exit"
           /\ jPc'[t] = "idle"
           /\ \E o \in Callers \ {t} : InCritical(o))
          => flFile' = flFile]_vars

\* C35: a manager whose running flag is set has its own process id in the
\* PID file
C35_RunningImpliesHandle ==
  \A p \in Procs : (alive[p] /\ running[p]) => pid_file = <<str(p)>>

\* C36: at most one live process has a manager with the running flag set
C36_CrossProcessSingleton ==
  Cardinality({p \in Procs : alive[p] /\ running[p]}) <= 1

\* C37: a process has at most one live loop thread per loop name
C37_OneLoopPerTask ==
  \A p \in Procs : threads[p] <= Cardinality(Loops)

\* C38: a get_status made after stop() has cleared the manager's running flag
\* does not return a snapshot whose manager_status is "running"
C38_StatusReflectsStop ==
  [][(/\ tLast.op # "get_status"
      /\ tLast'.op = "get_status"
      /\ alive[Manager]
      /\ ~running[Manager])
     => tLast'.ret.manager_status # "running"]_vars

\* ------------------------------------------------------- abandoned locks

\* C32: an acquire_lock that meets a record older than the lock TTL returns
\* True in the end, and a sweep that has listed such a record leaves the lock
\* file absent in the end
C32_AbandonedLocksBounded ==
  /\ \A t \in Threads :
       (/\ pc[t] \in {"aq_exists", "aq_expired"}
        /\ Stale(lockFile[key[t]], now))
       ~> (last.t = t /\ last.op \in {"acquire_lock", "lock"} /\ last.ret = "True")
  /\ \A t \in Threads, k \in Keys :
       (/\ pc[t] = "cl_next"
        /\ k \in todo[t]
        /\ Stale(lockFile[k], now))
       ~> ~Exists(lockFile[k])

\* C32: an acquire_lock has just unlinked the record that a holder outside
\* the running processes wrote more than the lock TTL ago, and is about to
\* write its own
C32_Witness ==
  /\ last.op \in {"acquire_lock", "lock"}
  /\ Exists(last.removed)
  /\ last.removed[1].pid = 0
  /\ Stale(last.removed, now)
  /\ pc[last.t] = "aq_write"

\* the records get_active_locks lists
Listed(files) == {get_active_locks(files)[k] : k \in DOMAIN get_active_locks(files)}

C34_ReadsTolerateChange ==
  /\ [](jLast.op = "read" => jLast.ret \in Docs \cup {"None"})
  /\ [][\A t \in Callers :
          (jOp[t] = "read" /\ jPc[t] = "fl_exit" /\ jPc'[t] = "idle")
          => jLast'.ret = (IF jRes[t] \in Docs THEN jRes[t] ELSE "None")]_vars

\* C34: a get is about to return after its open() found the cache file gone,
\* which was there when safe_json_read tested exists()
C34_Witness ==
  \E t \in Callers :
    /\ jOp[t] = "read"
    /\ jPc[t] = "fl_exit"
    /\ jRes[t] = "FileNotFoundError"
====
